---- MODULE Spec2Model ----
(***************************************************************************)
(* Model of the quality-control workflow of the nutrition RAG bot:         *)
(*   src/agent_workflow/workflow.py   the graph of steps                   *)
(*   src/agent_workflow/tools/rag.py  the initial state of a run           *)
(*   src/agents/agent_steps.py        expand / retrieve / craft            *)
(*   src/core/evaluation.py           _parse_score and the two scorers     *)
(*   src/core/refinement.py           refine_response / refine_query       *)
(*   src/core/routing.py              the two routers and the fallback     *)
(*                                                                         *)
(* A text is a sequence of lexemes: single characters, and the words       *)
(* "nan" and "inf" kept as one lexeme each.  A float is a record           *)
(* [k, num, e]: k = "fin" stands for num / 10^e (kept normalised so that   *)
(* equal values are equal records), k = "nan", "inf", "ninf" for the       *)
(* non-finite doubles, and k = "err" for a raised ValueError.              *)
(***************************************************************************)
EXTENDS Integers, Sequences, FiniteSets, TLC

\* ------------------------------------------------------------------ floats

Digits == {"0", "1", "2", "3", "4", "5", "6", "7", "8", "9"}

DigitVal(c) ==
  CASE c = "0" -> 0 [] c = "1" -> 1 [] c = "2" -> 2 [] c = "3" -> 3
    [] c = "4" -> 4 [] c = "5" -> 5 [] c = "6" -> 6 [] c = "7" -> 7
    [] c = "8" -> 8 [] c = "9" -> 9

\* 10^n
Pow10[n \in Nat] == IF n = 0 THEN 1 ELSE 10 * Pow10[n - 1]

\* num / 10^e with the trailing zeros of the fraction removed
Norm[num \in Int, e \in Nat] ==
  IF e > 0 /\ num % 10 = 0 THEN Norm[num \div 10, e - 1]
  ELSE [k |-> "fin", num |-> num, e |-> e]

NaN == [k |-> "nan", num |-> 0, e |-> 0]
PosInf == [k |-> "inf", num |-> 0, e |-> 0]
NegInf == [k |-> "ninf", num |-> 0, e |-> 0]
ValueError == [k |-> "err", num |-> 0, e |-> 0]

\* Python's a < b on floats: false whenever a nan is involved
FloatLt(a, b) ==
  CASE a.k = "nan" \/ b.k = "nan" -> FALSE
    [] a.k = "inf" -> FALSE
    [] a.k = "ninf" -> b.k # "ninf"
    [] b.k = "inf" -> TRUE
    [] b.k = "ninf" -> FALSE
    [] OTHER -> a.num * Pow10[b.e] < b.num * Pow10[a.e]

\* Python's a >= b on floats
FloatGe(a, b) ==
  /\ a.k # "nan"
  /\ b.k # "nan"
  /\ ~FloatLt(a, b)

\* Python's min(a, b) and max(a, b): the first argument unless the second beats it
PyMin(a, b) == IF FloatLt(b, a) THEN b ELSE a

PyMax(a, b) == IF FloatLt(a, b) THEN b ELSE a

\* ------------------------------------------------------------------- texts

Text == Seq(STRING)

\* number of digits of t starting at position i
DigitRun[t \in Text, i \in Nat] ==
  IF i <= Len(t) /\ t[i] \in Digits THEN 1 + DigitRun[t, i + 1] ELSE 0

DigitsToNat[ds \in Text] ==
  IF ds = <<>> THEN 0
  ELSE 10 * DigitsToNat[SubSeq(ds, 1, Len(ds) - 1)] + DigitVal(ds[Len(ds)])

LStrip[t \in Text] == IF t # <<>> /\ Head(t) = " " THEN LStrip[Tail(t)] ELSE t

RStrip[t \in Text] ==
  IF t # <<>> /\ t[Len(t)] = " " THEN RStrip[SubSeq(t, 1, Len(t) - 1)] ELSE t

\* str.strip()
strip(t) == RStrip[LStrip[t]]

\* the decimal literal  digits [ "." digits ]  or  "." digits  as a float
Decimal[b \in Text] ==
  LET i == DigitRun[b, 1]
      hasDot == i < Len(b) /\ b[i + 1] = "."
      f == IF hasDot THEN DigitRun[b, i + 2] ELSE 0
      used == IF hasDot THEN i + 1 + f ELSE i
  IN  IF used = Len(b) /\ i + f > 0
      THEN Norm[DigitsToNat[SubSeq(b, 1, i) \o SubSeq(b, i + 2, i + 1 + f)], f]
      ELSE ValueError

Negate(x) ==
  CASE x.k = "fin" -> [x EXCEPT !.num = 0 - x.num]
    [] x.k = "inf" -> NegInf
    [] x.k = "ninf" -> PosInf
    [] OTHER -> x

\* the body of a float literal after its sign
Unsigned[b \in Text] ==
  CASE b = <<"nan">> -> NaN
    [] b = <<"inf">> -> PosInf
    [] OTHER -> Decimal[b]

\* float(s) for a stripped text s
float[s \in Text] ==
  IF s = <<>> THEN ValueError
  ELSE IF Head(s) = "-" THEN Negate(Unsigned[Tail(s)])
  ELSE IF Head(s) = "+" THEN Unsigned[Tail(s)]
  ELSE Unsigned[s]

\* position of the first digit of t at or after i, 0 if there is none
FirstDigit[t \in Text, i \in Nat] ==
  IF i > Len(t) THEN 0
  ELSE IF t[i] \in Digits THEN i
  ELSE FirstDigit[t, i + 1]

\* re.search(r'(\d+\.?\d*)', t): the leftmost, greedy match, <<>> if none
re_search[t \in Text] ==
  LET i == FirstDigit[t, 1]
      n == DigitRun[t, i]
      dot == i + n <= Len(t) /\ t[i + n] = "."
      f == IF dot THEN DigitRun[t, i + n + 1] ELSE 0
  IN  IF i = 0 THEN <<>>
      ELSE SubSeq(t, i, i + n - 1 + (IF dot THEN 1 + f ELSE 0))

Zero == Norm[0, 0]
One == Norm[1, 0]

\* mutant: an unparsable answer scores 0.0
DefaultScoreZero == Norm[0, 1]

DefaultScore == Norm[5, 1]

\* the score before clamping
RawScore[response \in Text] ==
  LET direct == float[strip(response)]
      match == re_search[response]
  IN  IF direct.k # "err" THEN direct
      ELSE IF match # <<>> THEN float[match]
      ELSE DefaultScore

\* mutant: the score is not clamped
_parse_score_noclamp(response) == RawScore[response]

_parse_score(response) == PyMax(Zero, PyMin(One, RawScore[response]))

\* ----------------------------------------------------------- configuration

groundedness_threshold == Norm[7, 1]
precision_threshold == Norm[7, 1]
max_refinement_iterations == 3

\* -------------------------------------------------------------- environment

\* the user queries a run may be started with
Queries == {"q1", "q2"}

\* what the Generator may answer to an expansion, response or refinement prompt
GeneratorOutputs == {"g1", "g2"}

\* what the Retriever may return: nothing, or one document
RetrieverOutputs == {<<>>, <<[content |-> "c1", metadata |-> "m1"]>>}

T_08 == <<"0", ".", "8">>
T_07 == <<"0", ".", "7">>
T_05 == <<"0", ".", "5">>
T_04 == <<"0", ".", "4">>
T_03 == <<"0", ".", "3">>
T_15 == <<"1", ".", "5">>
T_20 == <<"2", ".", "0">>
T_m05 == <<"-", "0", ".", "5">>
T_nan == <<"nan">>
T_empty == <<>>
T_words == <<"n", "/", "a">>
T_embedded == <<"S", ":", " ", "0", ".", "6", "5", " ", "b">>

\* the answers named above
NamedAnswers ==
  {T_08, T_07, T_05, T_04, T_03, T_15, T_20, T_m05, T_nan, T_empty, T_words,
   T_embedded}

\* what the evaluating Generator may answer when it is not scripted: a
\* passing score, the threshold itself, a failing score, a score above 1, a
\* score below 0, an answer without a number and the empty answer
EvaluatorOutputs == {T_08, T_07, T_05, T_15, T_m05, T_words, T_empty}

ScenarioA == <<T_04, T_05, T_08>>
ScenarioB == <<T_03, T_03, T_03>>

FALLBACK ==
  "I apologize, but I need more context to provide an accurate answer. Could you please provide more details or rephrase your question?"

NoCall == <<>>

\* the longest text of the exhaustive evaluator answers
MaxTextLen == 2

\* the lexemes of the exhaustive evaluator answers
Alphabet == {"0", "1", "7", ".", "-", " ", "x", "nan", "inf"}

RECURSIVE TextsOfLen(_)
TextsOfLen(n) ==
  IF n = 0 THEN {<<>>}
  ELSE {Append(t, c) : t \in TextsOfLen(n - 1), c \in Alphabet}

\* every text of at most MaxTextLen lexemes, and the answers named above
ParseInputs == UNION {TextsOfLen(n) : n \in 0..MaxTextLen} \cup NamedAnswers

\* the number of decimals of the scores handed to a router on its own
ScoreDigits == 2

\* the scores 0.00, 0.01, ..., 1.00
ScoreGrid == {Norm[n, ScoreDigits] : n \in 0..Pow10[ScoreDigits]}

\* the largest loop count handed to a router on its own
MaxLoopCount == 5

\* -------------------------------------------------------------------- state

VARIABLES
  query, expanded_query, context, response,
  precision_score, groundedness_score,
  groundedness_loop_count, precision_loop_count,
  feedback, query_feedback, loop_max_iter,
  node,        \* the node the graph runs next, "END" when the run is over
  route,       \* the answer of the router called last, "" before any call
  last,        \* the node run last, "START" before the first
  recording,   \* whether the run is traced
  trace,       \* the nodes run so far, oldest first, of a traced run
  raw_score,   \* the evaluator's answer read by the last scoring step
  last_call,   \* the collaborator call made by the last step, NoCall if none
  evaluator    \* the evaluating Generator: a script of answers and a position

fields ==
  <<query, expanded_query, context, response, precision_score,
    groundedness_score, groundedness_loop_count, precision_loop_count,
    feedback, query_feedback, loop_max_iter>>

vars ==
  <<fields, node, route, last, recording, trace, raw_score, last_call,
    evaluator>>

\* the shared services of the request handler and the clock they read
VARIABLES
  now,         \* the time the clocks of the process show, in seconds
  lru,         \* an LRUCache: its OrderedDict, its limits and its counters
  ret,         \* the last call made on a service and what it returned
  used,        \* for each key of lru, the number of the call that last used it
  limiter,     \* the RateLimiter: its three buckets and its statistics
  bucket,      \* a TokenBucket of its own, shared by the threads
  metrics,     \* the MetricsCollector: its counters, latencies and errors
  threads,     \* the threads calling the services: where each is in its call
  locks,       \* for each Lock of the services, the thread holding it
  batcher      \* the AsyncBatcher: its pending pairs of item and future

svars ==
  <<now, lru, ret, used, limiter, bucket, metrics, threads, locks, batcher>>

\* a workflow run on its own constructs none of the services
NotConstructed == <<>>

NoServices ==
  /\ now = 0
  /\ lru = NotConstructed
  /\ ret = NotConstructed
  /\ used = NotConstructed
  /\ batcher = NotConstructed
  /\ limiter = NotConstructed
  /\ bucket = NotConstructed
  /\ metrics = NotConstructed
  /\ threads = NotConstructed
  /\ locks = NotConstructed

\* the answers the evaluator may give now: the next one of its script, and
\* any of evaluator.rest once the script is used up
EvaluatorReplies ==
  IF evaluator.pos <= Len(evaluator.script)
  THEN {evaluator.script[evaluator.pos]}
  ELSE evaluator.rest

EvaluatorAdvance ==
  evaluator' =
    IF evaluator.pos <= Len(evaluator.script)
    THEN [evaluator EXCEPT !.pos = evaluator.pos + 1]
    ELSE evaluator

\* the node n has run
Record(n) ==
  /\ last' = n
  /\ recording' = recording
  /\ trace' = IF recording THEN Append(trace, n) ELSE trace
  /\ UNCHANGED svars

\* agentic_rag: the state a run starts from
inputs(q) ==
  /\ query = q
  /\ expanded_query = ""
  /\ context = <<>>
  /\ response = ""
  /\ precision_score = Zero
  /\ groundedness_score = Zero
  /\ groundedness_loop_count = 0
  /\ precision_loop_count = 0
  /\ feedback = <<>>
  /\ query_feedback = <<>>
  /\ loop_max_iter = 3

\* WORKFLOW_APP.invoke(inputs) with the evaluator ev, traced or not
Invoke(ev, traced) ==
  /\ \E q \in Queries : inputs(q)
  /\ node = "expand_query"
  /\ route = ""
  /\ last = "START"
  /\ recording = traced
  /\ trace = <<>>
  /\ raw_score = <<>>
  /\ last_call = NoCall
  /\ evaluator = ev
  /\ NoServices

\* a run whose evaluator may answer anything of EvaluatorOutputs
Init == Invoke([script |-> <<>>, pos |-> 1, rest |-> EvaluatorOutputs], FALSE)

\* a run whose evaluator first answers the scores of a scenario
ScenarioInit ==
  \E sc \in {ScenarioA, ScenarioB} :
    Invoke([script |-> sc, pos |-> 1, rest |-> EvaluatorOutputs], TRUE)

\* a run whose evaluator is a mock that gives the answer t to the first
\* groundedness check, or passes that check and gives t to the first
\* precision check, and answers 0.3 from then on
MockInit ==
  \E t \in ParseInputs, pre \in {<<>>, <<T_08>>} :
    Invoke([script |-> pre \o <<t>>, pos |-> 1, rest |-> {T_03}], FALSE)

\* a state handed to a router on its own: the sample state with the score and
\* the loop count of one gate set
RouteInit ==
  /\ query = "q1"
  /\ expanded_query = "g1"
  /\ context = <<[content |-> "c1", metadata |-> "m1"]>>
  /\ response = "g1"
  /\ feedback = <<>>
  /\ query_feedback = <<>>
  /\ loop_max_iter = 3
  /\ \E s \in ScoreGrid, n \in 0..MaxLoopCount :
       \/ /\ node = "should_continue_groundedness"
          /\ groundedness_score = s
          /\ groundedness_loop_count = n
          /\ precision_score = Zero
          /\ precision_loop_count = 0
       \/ /\ node = "should_continue_precision"
          /\ precision_score = s
          /\ precision_loop_count = n
          /\ groundedness_score = Zero
          /\ groundedness_loop_count = 0
  /\ route = ""
  /\ last = "START"
  /\ recording = FALSE
  /\ trace = <<>>
  /\ raw_score = <<>>
  /\ last_call = NoCall
  /\ evaluator = [script |-> <<>>, pos |-> 1, rest |-> {}]
  /\ NoServices

\* -------------------------------------------------------------------- graph

\* mutant: a refined response is scored without being crafted again
EdgeSkipsCraft(n) ==
  CASE n = "expand_query" -> "retrieve_context"
    [] n = "retrieve_context" -> "craft_response"
    [] n = "craft_response" -> "score_groundedness"
    [] n = "refine_response" -> "score_groundedness"
    [] n = "refine_query" -> "expand_query"
    [] n = "max_iterations_reached" -> "END"

\* workflow.add_edge(a, b): the node that follows a
Edge(n) ==
  CASE n = "expand_query" -> "retrieve_context"
    [] n = "retrieve_context" -> "craft_response"
    [] n = "craft_response" -> "score_groundedness"
    [] n = "refine_response" -> "craft_response"
    [] n = "refine_query" -> "expand_query"
    [] n = "max_iterations_reached" -> "END"

\* the mapping of the conditional edges out of score_groundedness
GroundednessEdges(r) ==
  CASE r = "check_precision" -> "check_precision"
    [] r = "refine_response" -> "refine_response"
    [] r = "max_iterations_reached" -> "max_iterations_reached"

\* the mapping of the conditional edges out of check_precision
PrecisionEdges(r) ==
  CASE r = "pass" -> "END"
    [] r = "refine_query" -> "refine_query"
    [] r = "max_iterations_reached" -> "max_iterations_reached"

\* ------------------------------------------------------------------ routing

\* mutant: an exact threshold score does not pass
should_continue_groundedness_strict(score, loop_count) ==
  IF FloatLt(groundedness_threshold, score) THEN "check_precision"
  ELSE IF loop_count >= max_refinement_iterations THEN "max_iterations_reached"
  ELSE "refine_response"

\* mutant: the cap is reached one iteration late
should_continue_groundedness_late(score, loop_count) ==
  IF FloatGe(score, groundedness_threshold) THEN "check_precision"
  ELSE IF loop_count > max_refinement_iterations THEN "max_iterations_reached"
  ELSE "refine_response"

\* mutant: the cap is looked at before the score
should_continue_groundedness_capfirst(score, loop_count) ==
  IF loop_count >= max_refinement_iterations THEN "max_iterations_reached"
  ELSE IF FloatGe(score, groundedness_threshold) THEN "check_precision"
  ELSE "refine_response"

should_continue_groundedness(score, loop_count) ==
  IF FloatGe(score, groundedness_threshold) THEN "check_precision"
  ELSE IF loop_count >= max_refinement_iterations THEN "max_iterations_reached"
  ELSE "refine_response"

\* mutant: a run out of precision iterations passes
should_continue_precision_lenient(score, loop_count) ==
  IF FloatGe(score, precision_threshold) THEN "pass"
  ELSE IF loop_count > max_refinement_iterations THEN "pass"
  ELSE "refine_query"

should_continue_precision(score, loop_count) ==
  IF FloatGe(score, precision_threshold) THEN "pass"
  ELSE IF loop_count > max_refinement_iterations THEN "max_iterations_reached"
  ELSE "refine_query"

\* -------------------------------------------------------------------- steps

Llm(step, input) == <<[to |-> "llm", step |-> step, input |-> input]>>

expand_query ==
  /\ node = "expand_query"
  /\ \E g \in GeneratorOutputs : expanded_query' = g
  /\ last_call' = Llm("expand_query", <<query>>)
  /\ node' = Edge("expand_query")
  /\ Record("expand_query")
  /\ UNCHANGED <<query, context, response, precision_score, groundedness_score,
                 groundedness_loop_count, precision_loop_count, feedback,
                 query_feedback, loop_max_iter, raw_score, evaluator,
                 route>>

retrieve_context ==
  /\ node = "retrieve_context"
  /\ \E docs \in RetrieverOutputs : context' = docs
  /\ last_call' = <<[to |-> "retriever", step |-> "retrieve_context",
                     input |-> <<expanded_query>>]>>
  /\ node' = Edge("retrieve_context")
  /\ Record("retrieve_context")
  /\ UNCHANGED <<query, expanded_query, response, precision_score,
                 groundedness_score, groundedness_loop_count,
                 precision_loop_count, feedback, query_feedback, loop_max_iter,
                 raw_score, evaluator,
                 route>>

craft_response ==
  /\ node = "craft_response"
  /\ \E g \in GeneratorOutputs : response' = g
  /\ last_call' = Llm("craft_response", <<query, context, feedback>>)
  /\ node' = Edge("craft_response")
  /\ Record("craft_response")
  /\ UNCHANGED <<query, expanded_query, context, precision_score,
                 groundedness_score, groundedness_loop_count,
                 precision_loop_count, feedback, query_feedback, loop_max_iter,
                 raw_score, evaluator,
                 route>>

\* mutant: the loop counter is left as it is
score_groundedness_noinc ==
  /\ node = "score_groundedness"
  /\ \E raw \in EvaluatorReplies :
       /\ raw_score' = raw
       /\ groundedness_score' = _parse_score(raw)
  /\ EvaluatorAdvance
  /\ last_call' = Llm("score_groundedness", <<context, response>>)
  /\ route' = should_continue_groundedness(groundedness_score',
                                            groundedness_loop_count)
  /\ node' = GroundednessEdges(route')
  /\ Record("score_groundedness")
  /\ UNCHANGED <<query, expanded_query, context, response, precision_score,
                 groundedness_loop_count, precision_loop_count, feedback,
                 query_feedback, loop_max_iter>>

score_groundedness ==
  /\ node = "score_groundedness"
  /\ \E raw \in EvaluatorReplies :
       /\ raw_score' = raw
       /\ groundedness_score' = _parse_score(raw)
  /\ groundedness_loop_count' = groundedness_loop_count + 1
  /\ EvaluatorAdvance
  /\ last_call' = Llm("score_groundedness", <<context, response>>)
  /\ route' = should_continue_groundedness(groundedness_score',
                                            groundedness_loop_count')
  /\ node' = GroundednessEdges(route')
  /\ Record("score_groundedness")
  /\ UNCHANGED <<query, expanded_query, context, response, precision_score,
                 precision_loop_count, feedback, query_feedback, loop_max_iter>>

check_precision ==
  /\ node = "check_precision"
  /\ \E raw \in EvaluatorReplies :
       /\ raw_score' = raw
       /\ precision_score' = _parse_score(raw)
  /\ precision_loop_count' = precision_loop_count + 1
  /\ EvaluatorAdvance
  /\ last_call' = Llm("check_precision", <<query, response>>)
  /\ route' = should_continue_precision(precision_score', precision_loop_count')
  /\ node' = PrecisionEdges(route')
  /\ Record("check_precision")
  /\ UNCHANGED <<query, expanded_query, context, response, groundedness_score,
                 groundedness_loop_count, feedback, query_feedback,
                 loop_max_iter>>

refine_response ==
  /\ node = "refine_response"
  /\ \E suggestions \in GeneratorOutputs :
       feedback' = <<response, suggestions>>
  /\ last_call' = Llm("refine_response", <<query, response>>)
  /\ node' = Edge("refine_response")
  /\ Record("refine_response")
  /\ UNCHANGED <<query, expanded_query, context, response, precision_score,
                 groundedness_score, groundedness_loop_count,
                 precision_loop_count, query_feedback, loop_max_iter, raw_score,
                 evaluator, route>>

\* mutant: refining the query starts the precision count again
refine_query_reset ==
  /\ node = "refine_query"
  /\ \E suggestions \in GeneratorOutputs :
       query_feedback' = <<expanded_query, suggestions>>
  /\ precision_loop_count' = 0
  /\ last_call' = Llm("refine_query", <<query, expanded_query>>)
  /\ node' = Edge("refine_query")
  /\ Record("refine_query")
  /\ UNCHANGED <<query, expanded_query, context, response, precision_score,
                 groundedness_score, groundedness_loop_count, feedback,
                 loop_max_iter, raw_score, evaluator, route>>

\* mutant: every precision cycle has its own response-refinement budget
refine_query_new_budget ==
  /\ node = "refine_query"
  /\ \E suggestions \in GeneratorOutputs :
       query_feedback' = <<expanded_query, suggestions>>
  /\ groundedness_loop_count' = 0
  /\ last_call' = Llm("refine_query", <<query, expanded_query>>)
  /\ node' = Edge("refine_query")
  /\ Record("refine_query")
  /\ UNCHANGED <<query, expanded_query, context, response, precision_score,
                 groundedness_score, precision_loop_count, feedback,
                 loop_max_iter, raw_score, evaluator, route>>

refine_query ==
  /\ node = "refine_query"
  /\ \E suggestions \in GeneratorOutputs :
       query_feedback' = <<expanded_query, suggestions>>
  /\ last_call' = Llm("refine_query", <<query, expanded_query>>)
  /\ node' = Edge("refine_query")
  /\ Record("refine_query")
  /\ UNCHANGED <<query, expanded_query, context, response, precision_score,
                 groundedness_score, groundedness_loop_count,
                 precision_loop_count, feedback, loop_max_iter, raw_score,
                 evaluator, route>>

\* mutant: the response crafted last is kept
max_iterations_reached_keep ==
  /\ node = "max_iterations_reached"
  /\ last_call' = NoCall
  /\ node' = Edge("max_iterations_reached")
  /\ Record("max_iterations_reached")
  /\ UNCHANGED <<fields, raw_score, evaluator, route>>

max_iterations_reached ==
  /\ node = "max_iterations_reached"
  /\ response' = FALLBACK
  /\ last_call' = NoCall
  /\ node' = Edge("max_iterations_reached")
  /\ Record("max_iterations_reached")
  /\ UNCHANGED <<query, expanded_query, context, precision_score,
                 groundedness_score, groundedness_loop_count,
                 precision_loop_count, feedback, query_feedback, loop_max_iter,
                 raw_score, evaluator,
                 route>>

Next ==
  \/ expand_query
  \/ retrieve_context
  \/ craft_response
  \/ score_groundedness
  \/ refine_response
  \/ check_precision
  \/ refine_query
  \/ max_iterations_reached

Spec == Init /\ [][Next]_vars

ScenarioSpec == ScenarioInit /\ [][Next]_vars

MockSpec == MockInit /\ [][Next]_vars

\* a router called on its own, as the unit tests call it
call_should_continue_groundedness ==
  /\ node = "should_continue_groundedness"
  /\ route = ""
  /\ route' = should_continue_groundedness(groundedness_score,
                                            groundedness_loop_count)
  /\ UNCHANGED <<fields, node, last, recording, trace, raw_score, last_call,
                 evaluator, svars>>

call_should_continue_precision ==
  /\ node = "should_continue_precision"
  /\ route = ""
  /\ route' = should_continue_precision(precision_score, precision_loop_count)
  /\ UNCHANGED <<fields, node, last, recording, trace, raw_score, last_call,
                 evaluator, svars>>

RouteNext ==
  \/ call_should_continue_groundedness
  \/ call_should_continue_precision

RouteSpec == RouteInit /\ [][RouteNext]_vars

\* the graph runs the next node whenever there is one
FairSpec == Spec /\ WF_vars(Next)

\* ------------------------------------------------------------------- claims

IsPrefix(a, b) == Len(a) <= Len(b) /\ a = SubSeq(b, 1, Len(a))

\* s >= 0.7 and 0 <= s <= 1, stated on the decimal value of a finite score
AtLeast07(s) == s.k = "fin" /\ s.num * 10 >= 7 * Pow10[s.e]

InUnit(s) == s.k = "fin" /\ 0 <= s.num /\ s.num <= Pow10[s.e]

Pass == node = "END" /\ last = "check_precision" /\ route = "pass"

MaxIterationsReached == node = "END" /\ last = "max_iterations_reached"

C2_GroundednessRouting ==
  (node = "should_continue_groundedness" /\ route # "") =>
    LET ok == AtLeast07(groundedness_score)
        n == groundedness_loop_count
    IN  /\ route = "check_precision" <=> ok
        /\ route = "max_iterations_reached" <=> (~ok /\ n >= 3)
        /\ route = "refine_response" <=> (~ok /\ n < 3)

C2_Witness ==
  /\ node = "should_continue_groundedness"
  /\ route = "check_precision"
  /\ groundedness_score = Norm[7, 1]
  /\ groundedness_loop_count >= 3

\* C3: the precision router answers pass exactly for a score of at least the
\* threshold, max_iterations_reached exactly for a lower score at loop count
\* 3 or more (the boundary of the groundedness router), and refine_query
\* otherwise.
C3_PrecisionRouting ==
  (node = "should_continue_precision" /\ route # "") =>
    LET ok == AtLeast07(precision_score)
        n == precision_loop_count
    IN  /\ route = "pass" <=> ok
        /\ route = "max_iterations_reached" <=> (~ok /\ n >= 3)
        /\ route = "refine_query" <=> (~ok /\ n < 3)

\* C4: every step of a run runs the node the graph names and moves along an
\* edge of the state machine; nothing runs after the end; check_precision is
\* entered only from a score_groundedness whose score reached the threshold.
C4_Step ==
  /\ node # "END"
  /\ last' = node
  /\ node = "expand_query" => node' = "retrieve_context"
  /\ node = "retrieve_context" => node' = "craft_response"
  /\ node = "craft_response" => node' = "score_groundedness"
  /\ node = "refine_response" => node' = "craft_response"
  /\ node = "refine_query" => node' = "expand_query"
  /\ node = "max_iterations_reached" => node' = "END"
  /\ node = "score_groundedness" =>
       node' \in {"check_precision", "refine_response", "max_iterations_reached"}
  /\ node = "check_precision" =>
       /\ node' \in {"END", "refine_query", "max_iterations_reached"}
       /\ node' = "END" => route' = "pass"
  /\ node' = "check_precision" =>
       node = "score_groundedness" /\ AtLeast07(groundedness_score')

C4_StateMachineOrder == [][C4_Step]_vars

C4_Witness ==
  /\ node = "check_precision"
  /\ last = "score_groundedness"
  /\ feedback # <<>>
  /\ query_feedback # <<>>

\* C5: score_groundedness adds exactly 1 to groundedness_loop_count,
\* check_precision adds exactly 1 to precision_loop_count, and no step
\* changes a counter otherwise.
C5_Step ==
  /\ groundedness_loop_count' =
       groundedness_loop_count + (IF node = "score_groundedness" THEN 1 ELSE 0)
  /\ precision_loop_count' =
       precision_loop_count + (IF node = "check_precision" THEN 1 ELSE 0)

C5_LoopCounters == [][C5_Step]_vars

C5_Witness ==
  /\ node = "retrieve_context"
  /\ last = "expand_query"
  /\ query_feedback # <<>>
  /\ groundedness_loop_count >= 3
  /\ precision_loop_count >= 2

ScenarioBTrace ==
  <<"expand_query", "retrieve_context", "craft_response", "score_groundedness",
    "refine_response", "craft_response", "score_groundedness",
    "refine_response", "craft_response", "score_groundedness",
    "max_iterations_reached">>

\* C6: with the groundedness answers 0.3, 0.3, 0.3 the run refines the
\* response twice, then runs max_iterations_reached and ends with the
\* fallback response; check_precision never runs.
C6_ScenarioB ==
  evaluator.script = ScenarioB =>
    /\ IsPrefix(trace, ScenarioBTrace)
    /\ node # "check_precision"
    /\ node = "END" => (trace = ScenarioBTrace /\ response = FALLBACK)
    /\ trace = ScenarioBTrace => node = "END"

C6_Witness == evaluator.script = ScenarioB /\ MaxIterationsReached

ScenarioATrace ==
  <<"expand_query", "retrieve_context", "craft_response", "score_groundedness",
    "refine_response", "craft_response", "score_groundedness",
    "refine_response", "craft_response", "score_groundedness">>

\* C7: with the groundedness answers 0.4, 0.5, 0.8 the run refines the
\* response after the first two and goes to check_precision after the
\* third, with groundedness_loop_count = 3.
C7_ScenarioA ==
  evaluator.script = ScenarioA =>
    /\ Len(trace) <= Len(ScenarioATrace) => IsPrefix(trace, ScenarioATrace)
    /\ Len(trace) = Len(ScenarioATrace) =>
         /\ node = "check_precision"
         /\ groundedness_loop_count = 3
         /\ groundedness_score = Norm[8, 1]

C7_Witness ==
  /\ evaluator.script = ScenarioA
  /\ trace = ScenarioATrace
  /\ node = "check_precision"

\* the score the last scoring step has set
ScoreSet ==
  IF last = "score_groundedness" THEN groundedness_score ELSE precision_score

JustScored == last \in {"score_groundedness", "check_precision"}

\* C8: both scores are always in [0, 1]; an answer whose value is above 1
\* gives the score 1.0 and one whose value is below 0 gives 0.0.
C8_ScoresClamped ==
  /\ InUnit(groundedness_score)
  /\ InUnit(precision_score)
  /\ JustScored =>
       LET v == RawScore[raw_score]
       IN  /\ (v.k = "inf" \/ (v.k = "fin" /\ v.num > Pow10[v.e])) => ScoreSet = One
           /\ (v.k = "ninf" \/ (v.k = "fin" /\ v.num < 0)) => ScoreSet = Zero
           /\ (v.k = "fin" /\ InUnit(v)) => ScoreSet = v

C8_Witness ==
  /\ JustScored
  /\ raw_score = T_m05
  /\ last = "check_precision"
  /\ precision_score = Zero
  /\ groundedness_score = Norm[8, 1]

\* an answer that is no number and holds no number-shaped part
Malformed(t) == float[strip(t)].k = "err" /\ \A i \in 1..Len(t) : t[i] \notin Digits

\* C9: a scoring step that reads a malformed answer sets its score to 0.5,
\* adds 1 to its loop counter and goes on to a route of a failed check.
C9_Step ==
  /\ (node = "score_groundedness" /\ Malformed(raw_score')) =>
       /\ groundedness_score' = Norm[5, 1]
       /\ groundedness_loop_count' = groundedness_loop_count + 1
       /\ route' \in {"refine_response", "max_iterations_reached"}
       /\ node' = route'
  /\ (node = "check_precision" /\ Malformed(raw_score')) =>
       /\ precision_score' = Norm[5, 1]
       /\ precision_loop_count' = precision_loop_count + 1
       /\ route' \in {"refine_query", "max_iterations_reached"}
       /\ node' = route'

C9_MalformedNotFatal == [][C9_Step]_vars

C9_Witness ==
  /\ last = "check_precision"
  /\ raw_score = T_words
  /\ precision_score = Norm[5, 1]
  /\ node = "refine_query"

\* C10: the max_iterations_reached step sets the response to the fallback
\* text, calls no collaborator and changes no other field, so a run that
\* ends through it returns the fallback text.
C10_Step ==
  /\ node = "max_iterations_reached" =>
       /\ response' = FALLBACK
       /\ last_call' = NoCall
       /\ UNCHANGED <<query, expanded_query, context, precision_score,
                      groundedness_score, groundedness_loop_count,
                      precision_loop_count, feedback, query_feedback,
                      loop_max_iter>>
  /\ (node' = "END" /\ last' = "max_iterations_reached") =>
       response' = FALLBACK

C10_Fallback == [][C10_Step]_vars

C10_Witness ==
  /\ MaxIterationsReached
  /\ response = FALLBACK
  /\ precision_loop_count > 0
  /\ feedback # <<>>

\* C11: an expand_query step that runs after refine_query has set
\* query_feedback gives the Generator the query together with that feedback,
\* an input that differs from the one of the run's first expand_query.
C11_FeedbackConsumed ==
  (last = "expand_query" /\ query_feedback # <<>>) =>
    /\ last_call = Llm("expand_query", <<query, query_feedback>>)
    /\ last_call # Llm("expand_query", <<query>>)

\* ----------------------------------------------------------------- LRUCache

None == "None"

\* an optional ttl argument: NoTtl for None, <<T>> for the number T
NoTtl == <<>>

CacheEntry(key, value, created_at, ttl) ==
  [key |-> key, value |-> value, created_at |-> created_at, ttl |-> ttl,
   hits |-> 0]

\* mutant: an entry expires as soon as its age reaches its ttl
is_expired_early(entry, t) ==
  IF entry.ttl <= 0 THEN FALSE ELSE t - entry.created_at >= entry.ttl

\* CacheEntry.is_expired when time.time() is t
is_expired(entry, t) ==
  IF entry.ttl <= 0 THEN FALSE ELSE t - entry.created_at > entry.ttl

\* LRUCache.__init__
LRUCache(max_size, default_ttl) ==
  [cache |-> <<>>, max_size |-> max_size, default_ttl |-> default_ttl,
   hits |-> 0, misses |-> 0]

\* the OrderedDict as the sequence of its entries, the oldest first:
\* the place of a key in it (0 when absent), and del
Position(c, key) ==
  IF \E i \in 1..Len(c) : c[i].key = key
  THEN CHOOSE i \in 1..Len(c) : c[i].key = key
  ELSE 0

Delete(c, i) == SubSeq(c, 1, i - 1) \o SubSeq(c, i + 1, Len(c))

CacheKeys(c) == {c[i].key : i \in 1..Len(c)}

\* mutant: a hit leaves the entry where it is
LRUCache_get_nomove(self, key, t) ==
  LET i == Position(self.cache, key)
  IN  IF i = 0
      THEN [self |-> [self EXCEPT !.misses = @ + 1], value |-> None]
      ELSE IF is_expired(self.cache[i], t)
      THEN [self |-> [self EXCEPT !.cache = Delete(@, i), !.misses = @ + 1],
            value |-> None]
      ELSE [self |-> [self EXCEPT !.cache[i].hits = @ + 1, !.hits = @ + 1],
            value |-> self.cache[i].value]

\* LRUCache.get when time.time() is t: the cache after the call and the
\* value returned
LRUCache_get(self, key, t) ==
  LET i == Position(self.cache, key)
  IN  IF i = 0
      THEN [self |-> [self EXCEPT !.misses = @ + 1], value |-> None]
      ELSE IF is_expired(self.cache[i], t)
      THEN [self |-> [self EXCEPT !.cache = Delete(@, i), !.misses = @ + 1],
            value |-> None]
      ELSE [self |-> [self EXCEPT
                        !.cache = Append(Delete(@, i),
                                         [self.cache[i] EXCEPT !.hits = @ + 1]),
                        !.hits = @ + 1],
            value |-> self.cache[i].value]

\* the loop of set: popitem(last=False) while the cache is at capacity
\* (max_size >= 1; with max_size <= 0 the loop ends in a KeyError)
RECURSIVE popitem_while_full(_, _)
popitem_while_full(c, max_size) ==
  IF Len(c) >= max_size /\ c # <<>>
  THEN popitem_while_full(Tail(c), max_size)
  ELSE c

\* mutant: the new entry is inserted without making room first
LRUCache_set_noevict(self, key, value, ttl, t) ==
  LET e == CacheEntry(key, value, t,
                      IF ttl = NoTtl THEN self.default_ttl ELSE ttl[1])
      i == Position(self.cache, key)
  IN  [self EXCEPT !.cache = IF i = 0 THEN Append(self.cache, e)
                             ELSE [self.cache EXCEPT ![i] = e]]

\* LRUCache.set when time.time() is t: an assignment to a key the
\* OrderedDict already holds keeps the key's place
LRUCache_set(self, key, value, ttl, t) ==
  LET e == CacheEntry(key, value, t,
                      IF ttl = NoTtl THEN self.default_ttl ELSE ttl[1])
      c == popitem_while_full(self.cache, self.max_size)
      i == Position(c, key)
  IN  [self EXCEPT !.cache = IF i = 0 THEN Append(c, e)
                             ELSE [c EXCEPT ![i] = e]]

\* LRUCache.invalidate
LRUCache_invalidate(self, key) ==
  LET i == Position(self.cache, key)
  IN  IF i # 0
      THEN [self |-> [self EXCEPT !.cache = Delete(@, i)], value |-> TRUE]
      ELSE [self |-> self, value |-> FALSE]

\* LRUCache.clear
LRUCache_clear(self) ==
  [self EXCEPT !.cache = <<>>, !.hits = 0, !.misses = 0]

\* LRUCache.cleanup_expired when time.time() is t
LRUCache_cleanup_expired(self, t) ==
  LET live(e) == ~is_expired(e, t)
      kept == SelectSeq(self.cache, live)
  IN  [self |-> [self EXCEPT !.cache = kept],
       value |-> Len(self.cache) - Len(kept)]

\* a client of one cache: any calls in any order while time passes

MaxCacheSize == 2

MaxCalls == 3

MaxTime == 2

CacheKeyNames == {"k1", "k2", "k3"}

CacheValues == {"v1", "v2"}

Ttls == {NoTtl, <<0>>, <<1>>}

DefaultTtls == {1}

\* no workflow run is going on
NoRun ==
  /\ inputs("")
  /\ node = "END"
  /\ route = ""
  /\ last = "START"
  /\ recording = FALSE
  /\ trace = <<>>
  /\ raw_score = <<>>
  /\ last_call = NoCall
  /\ evaluator = [script |-> <<>>, pos |-> 1, rest |-> {}]

\* the call numbered ret.n + 1 and its result, with the number of entries
\* the cache held when the call was made
Returned(op, key, value) ==
  ret' = [n |-> ret.n + 1, op |-> op, key |-> key, value |-> value,
          size |-> Len(lru.cache)]

\* the keys of the cache with the call that last used each: the call
\* numbered ret.n + 1 uses the keys of touched
Use(touched) ==
  used' = [k \in CacheKeys(lru'.cache) |->
             IF k \in touched THEN ret.n + 1 ELSE used[k]]

CacheInit ==
  /\ NoRun
  /\ now = 0
  /\ \E m \in 1..MaxCacheSize, d \in DefaultTtls : lru = LRUCache(m, d)
  /\ ret = [n |-> 0, op |-> "__init__", key |-> None, value |-> None,
            size |-> 0]
  /\ used = <<>>
  /\ batcher = NotConstructed
  /\ limiter = NotConstructed
  /\ bucket = NotConstructed
  /\ metrics = NotConstructed
  /\ threads = NotConstructed
  /\ locks = NotConstructed

call_get ==
  /\ ret.n < MaxCalls
  /\ \E key \in CacheKeyNames :
       LET r == LRUCache_get(lru, key, now)
       IN  /\ lru' = r.self
           /\ Returned("get", key, r.value)
           /\ Use({key})
  /\ UNCHANGED <<now, limiter, bucket, metrics, threads, locks, batcher, vars>>

call_set ==
  /\ ret.n < MaxCalls
  /\ \E key \in CacheKeyNames, value \in CacheValues, ttl \in Ttls :
       /\ lru' = LRUCache_set(lru, key, value, ttl, now)
       /\ Returned("set", key, None)
       /\ Use({key})
  /\ UNCHANGED <<now, limiter, bucket, metrics, threads, locks, batcher, vars>>

call_invalidate ==
  /\ ret.n < MaxCalls
  /\ \E key \in CacheKeyNames :
       LET r == LRUCache_invalidate(lru, key)
       IN  /\ lru' = r.self
           /\ Returned("invalidate", key, r.value)
           /\ Use({})
  /\ UNCHANGED <<now, limiter, bucket, metrics, threads, locks, batcher, vars>>

call_clear ==
  /\ ret.n < MaxCalls
  /\ lru' = LRUCache_clear(lru)
  /\ Returned("clear", None, None)
  /\ Use({})
  /\ UNCHANGED <<now, limiter, bucket, metrics, threads, locks, batcher, vars>>

call_cleanup_expired ==
  /\ ret.n < MaxCalls
  /\ LET r == LRUCache_cleanup_expired(lru, now)
     IN  /\ lru' = r.self
         /\ Returned("cleanup_expired", None, r.value)
         /\ Use({})
  /\ UNCHANGED <<now, limiter, bucket, metrics, threads, locks, batcher, vars>>

\* a second passes
Tick ==
  /\ now < MaxTime
  /\ now' = now + 1
  /\ UNCHANGED <<lru, ret, used, limiter, bucket, metrics, threads, locks, batcher, vars>>

CacheNext ==
  \/ call_get
  \/ call_set
  \/ call_invalidate
  \/ call_clear
  \/ call_cleanup_expired
  \/ Tick

allvars == <<vars, svars>>

CacheSpec == CacheInit /\ [][CacheNext]_allvars

\* a client that only sets and gets, without a ttl, in a cache that never
\* expires its entries

LruKeys == {"k1", "k2", "k3", "k4"}

LruSize == 3

MaxUses == 5

LruInit ==
  /\ NoRun
  /\ now = 0
  /\ lru = LRUCache(LruSize, 0)
  /\ ret = [n |-> 0, op |-> "__init__", key |-> None, value |-> None,
            size |-> 0]
  /\ used = <<>>
  /\ batcher = NotConstructed
  /\ limiter = NotConstructed
  /\ bucket = NotConstructed
  /\ metrics = NotConstructed
  /\ threads = NotConstructed
  /\ locks = NotConstructed

use_get ==
  /\ ret.n < MaxUses
  /\ \E key \in LruKeys :
       LET r == LRUCache_get(lru, key, now)
       IN  /\ lru' = r.self
           /\ Returned("get", key, r.value)
           /\ Use({key})
  /\ UNCHANGED <<now, limiter, bucket, metrics, threads, locks, batcher, vars>>

use_set ==
  /\ ret.n < MaxUses
  /\ \E key \in LruKeys :
       /\ lru' = LRUCache_set(lru, key, "v1", NoTtl, now)
       /\ Returned("set", key, None)
       /\ Use({key})
  /\ UNCHANGED <<now, limiter, bucket, metrics, threads, locks, batcher, vars>>

LruNext ==
  \/ use_get
  \/ use_set

LruSpec == LruInit /\ [][LruNext]_allvars

\* C17: a cache of max_size >= 1 never holds more than max_size entries,
\* whatever calls are made on it, the state right after a set included.
C17_Capacity == Len(lru.cache) <= lru.max_size

C17_Witness ==
  /\ ret.op = "set"
  /\ ret.size = lru.max_size
  /\ Len(lru.cache) = lru.max_size
  /\ ret.key \in CacheKeys(lru.cache)

\* the entries of c other than the one of key, in their order
Others(c, key) ==
  LET other(e) == e.key # key
  IN  SelectSeq(c, other)

\* C18: get on an absent or expired key returns None, adds 1 to the misses
\* and removes the expired entry; get on a live key returns its value, adds
\* 1 to the hits of the cache and of the entry and makes the entry the most
\* recently used; no other entry changes.
C18_Step ==
  (ret'.n = ret.n + 1 /\ ret'.op = "get") =>
    LET key == ret'.key
        i == Position(lru.cache, key)
        e == lru.cache[i]
        live == e.ttl = 0 \/ now - e.created_at <= e.ttl
    IN  /\ Others(lru'.cache, key) = Others(lru.cache, key)
        /\ lru'.max_size = lru.max_size
        /\ lru'.default_ttl = lru.default_ttl
        /\ IF i # 0 /\ live
           THEN /\ ret'.value = e.value
                /\ lru'.hits = lru.hits + 1
                /\ lru'.misses = lru.misses
                /\ Len(lru'.cache) = Len(lru.cache)
                /\ lru'.cache[Len(lru'.cache)] = [e EXCEPT !.hits = @ + 1]
           ELSE /\ ret'.value = None
                /\ lru'.misses = lru.misses + 1
                /\ lru'.hits = lru.hits
                /\ key \notin CacheKeys(lru'.cache)

C18_GetSemantics == [][C18_Step]_allvars

C18_Witness ==
  /\ ret.op = "get"
  /\ ret.n = 3
  /\ ret.value = "v2"
  /\ Len(lru.cache) = 2
  /\ lru.cache[2].key = ret.key
  /\ lru.cache[2].hits = 1
  /\ used[lru.cache[1].key] = 2
  /\ lru.hits = 1

\* C19: after set(k, v, ttl = T) with T > 0, get(k) returns v while at most
\* T has passed since the set and k is still the entry of that set; once
\* more than T has passed get(k) returns None and k is gone from the cache;
\* an entry set with ttl = 0 is returned however much time has passed.
C19_Step ==
  /\ (ret'.n = ret.n + 1 /\ ret'.op = "set") =>
       LET e == lru'.cache[Position(lru'.cache, ret'.key)]
       IN  /\ ret'.key \in CacheKeys(lru'.cache)
           /\ e.created_at = now
           /\ e.ttl \in {0} \cup {t[1] : t \in Ttls \ {NoTtl}} \cup DefaultTtls
  /\ (ret'.n = ret.n + 1 /\ ret'.op = "get"
        /\ ret'.key \in CacheKeys(lru.cache)) =>
       LET e == lru.cache[Position(lru.cache, ret'.key)]
           elapsed == now - e.created_at
       IN  /\ (e.ttl > 0 /\ elapsed <= e.ttl) => ret'.value = e.value
           /\ (e.ttl > 0 /\ elapsed > e.ttl) =>
                /\ ret'.value = None
                /\ ret'.key \notin CacheKeys(lru'.cache)
           /\ e.ttl = 0 => ret'.value = e.value

C19_Ttl == [][C19_Step]_allvars

C19_Witness ==
  /\ ret.op = "get"
  /\ ret.value = None
  /\ ret.size = 1
  /\ Len(lru.cache) = 0
  /\ now = 2

\* C20: a set of a new key in a full cache removes exactly one entry, the
\* one whose last use (get hit or set) is the oldest; every entry used
\* after it stays.
C20_Step ==
  (ret'.n = ret.n + 1 /\ ret'.op = "set"
     /\ ret'.key \notin CacheKeys(lru.cache)
     /\ Len(lru.cache) = lru.max_size) =>
    \E victim \in CacheKeys(lru.cache) :
      /\ CacheKeys(lru'.cache) =
           (CacheKeys(lru.cache) \ {victim}) \cup {ret'.key}
      /\ \A k \in CacheKeys(lru.cache) : used[victim] <= used[k]

C20_LruOrder == [][C20_Step]_allvars

\* ----------------------------------------------------------- InputValidator

MIN_QUERY_LENGTH == 3

MAX_QUERY_LENGTH == 5000

MAX_USER_ID_LENGTH == 100

\* an input text is a sequence of pieces: a piece stands for the characters
\* it names, LongWord for MAX_QUERY_LENGTH + 1 word characters
LongWord == "w..."

PieceLen(c) ==
  CASE c = LongWord -> MAX_QUERY_LENGTH + 1
    [] c = "word" -> 4
    [] c = "<script>" -> 8
    [] c = "javascript:" -> 11
    [] OTHER -> 1

RECURSIVE len(_)
len(t) == IF t = <<>> THEN 0 ELSE PieceLen(Head(t)) + len(Tail(t))

\* the pieces one of INJECTION_PATTERNS finds
InjectionPieces == {"<script>", "javascript:"}

\* the pieces str.encode('utf-8') refuses: a lone surrogate
Surrogates == {"\\ud800"}

\* the pieces made of characters of [\w\-\.@]
WordPieces == {"u", "v", "a", "word", LongWord, "-", ".", "@"}

\* InputValidator.validate_query: the tuple (is_valid, errors), the errors
\* by their codes
validate_query(text) ==
  IF text = <<>> THEN <<FALSE, <<"EMPTY_QUERY">>>>
  ELSE
    LET q == strip(text)
        errors ==
          (IF len(q) < MIN_QUERY_LENGTH THEN <<"QUERY_TOO_SHORT">> ELSE <<>>)
          \o (IF len(q) > MAX_QUERY_LENGTH THEN <<"QUERY_TOO_LONG">> ELSE <<>>)
          \o (IF \E i \in 1..Len(q) : q[i] \in InjectionPieces
              THEN <<"INJECTION_DETECTED">> ELSE <<>>)
          \o (IF \E i \in 1..Len(q) : q[i] \in Surrogates
              THEN <<"INVALID_ENCODING">> ELSE <<>>)
    IN  <<errors = <<>>, errors>>

\* InputValidator.validate_user_id: the tuple (is_valid, errors)
validate_user_id(user_id) ==
  IF user_id = <<>> THEN <<FALSE, <<"EMPTY_USER_ID">>>>
  ELSE
    LET u == strip(user_id)
        errors ==
          (IF len(u) > MAX_USER_ID_LENGTH THEN <<"USER_ID_TOO_LONG">>
           ELSE <<>>)
          \o (IF u = <<>> \/ \E i \in 1..Len(u) : u[i] \notin WordPieces
              THEN <<"INVALID_USER_ID_CHARS">> ELSE <<>>)
    IN  <<errors = <<>>, errors>>

\* ---------------------------------------------------------------- RateLimiter

\* tokens are counted in 36ths, the unit in which the rates and capacities
\* of the default buckets are whole numbers; time is counted in seconds
TokenUnit == 36

requests_per_minute == 60

requests_per_hour == 1000

tokens_per_minute == 90000

\* burst_multiplier = 1.5 as the fraction BurstNum / BurstDen
BurstNum == 3

BurstDen == 2

\* the timeout of RateLimiter.acquire, in seconds
DefaultTimeout == 30

\* TokenBucket.__init__ for a limit of per requests in period seconds
TokenBucket(per, period, t) ==
  [rate |-> (per * TokenUnit) \div period,
   capacity |-> (per * BurstNum * TokenUnit) \div (BurstDen * period),
   tokens |-> (per * BurstNum * TokenUnit) \div (BurstDen * period),
   last_update |-> t]

\* TokenBucket._refill when time.monotonic() is t
TokenBucket_refill(self, t) ==
  LET filled == self.tokens + (t - self.last_update) * self.rate
  IN  [self EXCEPT !.tokens = IF self.capacity < filled THEN self.capacity
                              ELSE filled,
                   !.last_update = t]

\* TokenBucket.acquire(tokens, blocking=True, timeout) called at time t:
\* the bucket it leaves, what it returns and when. The loop refills and
\* checks, and sleeps at most 0.1 s between two checks, until the tokens are
\* there or timeout has passed; the checks of the whole seconds are the
\* ones modelled, and refilling at every check adds up to one refill.
TokenBucket_acquire(self, tokens, timeout, t) ==
  LET at(w) == TokenBucket_refill(self, t + w)
      waits == {w \in 0..timeout : at(w).tokens >= tokens}
      first == CHOOSE w \in waits : \A v \in waits : w <= v
  IN  IF waits # {}
      THEN [self |-> [at(first) EXCEPT !.tokens = @ - tokens],
            value |-> TRUE, t |-> t + first]
      ELSE [self |-> at(timeout), value |-> FALSE, t |-> t + timeout]

\* RateLimiter.__init__ with the default RateLimitConfig
RateLimiter(t) ==
  [rpm |-> TokenBucket(requests_per_minute, 60, t),
   rph |-> TokenBucket(requests_per_hour, 3600, t),
   tpm |-> TokenBucket(tokens_per_minute, 60, t),
   total_requests |-> 0, total_tokens |-> 0, blocked_requests |-> 0]

\* mutant: a refusal gives back what the earlier buckets granted
RateLimiter_acquire_rollback(self, estimated_tokens, timeout, t) ==
  LET m == TokenBucket_acquire(self.rpm, TokenUnit, timeout, t)
      h == TokenBucket_acquire(self.rph, TokenUnit, timeout, m.t)
      blocked(l) == [l EXCEPT !.blocked_requests = @ + 1]
  IN  IF ~m.value
      THEN [self |-> blocked(self),
            value |-> FALSE, raised |-> None, t |-> m.t]
      ELSE IF ~h.value
      THEN [self |-> blocked(self),
            value |-> FALSE, raised |-> None, t |-> h.t]
      ELSE IF estimated_tokens[1] = "str"
      THEN [self |-> [self EXCEPT !.rpm = m.self, !.rph = h.self],
            value |-> None, raised |-> "ValueError", t |-> h.t]
      ELSE
        LET k == TokenBucket_acquire(self.tpm,
                                     estimated_tokens[2] * TokenUnit,
                                     timeout, h.t)
            l == [self EXCEPT !.rpm = m.self, !.rph = h.self, !.tpm = k.self]
        IN  IF ~k.value
            THEN [self |-> blocked(self), value |-> FALSE, raised |-> None,
                  t |-> k.t]
            ELSE [self |-> [l EXCEPT
                              !.total_requests = @ + 1,
                              !.total_tokens = @ + estimated_tokens[2]],
                  value |-> TRUE, raised |-> None, t |-> k.t]

\* the argument estimated_tokens is <<"int", n>> for the number n and
\* <<"str", ...>> for a Python str; float() of the strings the handler
\* builds, "user:...", is a ValueError
\* RateLimiter.acquire(estimated_tokens, timeout) called at time t: the
\* limiter it leaves, what it returns or raises, and when
RateLimiter_acquire(self, estimated_tokens, timeout, t) ==
  LET m == TokenBucket_acquire(self.rpm, TokenUnit, timeout, t)
      h == TokenBucket_acquire(self.rph, TokenUnit, timeout, m.t)
      blocked(l) == [l EXCEPT !.blocked_requests = @ + 1]
  IN  IF ~m.value
      THEN [self |-> blocked([self EXCEPT !.rpm = m.self]),
            value |-> FALSE, raised |-> None, t |-> m.t]
      ELSE IF ~h.value
      THEN [self |-> blocked([self EXCEPT !.rpm = m.self, !.rph = h.self]),
            value |-> FALSE, raised |-> None, t |-> h.t]
      ELSE IF estimated_tokens[1] = "str"
      THEN [self |-> [self EXCEPT !.rpm = m.self, !.rph = h.self],
            value |-> None, raised |-> "ValueError", t |-> h.t]
      ELSE
        LET k == TokenBucket_acquire(self.tpm,
                                     estimated_tokens[2] * TokenUnit,
                                     timeout, h.t)
            l == [self EXCEPT !.rpm = m.self, !.rph = h.self, !.tpm = k.self]
        IN  IF ~k.value
            THEN [self |-> blocked(l), value |-> FALSE, raised |-> None,
                  t |-> k.t]
            ELSE [self |-> [l EXCEPT
                              !.total_requests = @ + 1,
                              !.total_tokens = @ + estimated_tokens[2]],
                  value |-> TRUE, raised |-> None, t |-> k.t]

\* ----------------------------------------------------------- MetricsCollector

\* the methods class MetricsCollector defines
MetricsCollector_methods ==
  {"record_latency", "increment_counter", "set_gauge", "record_error",
   "_cleanup_old_measurements", "measure_latency", "get_summary",
   "get_health_status", "reset"}

\* the counters the request handler names
CounterNames ==
  {"validation_failures", "rate_limit_exceeded", "cache_hits", "cache_misses",
   "llm_requests", "successful_responses", "errors"}

\* the counters in use: those of the handler and the one get_health_status
\* reads
Counters == CounterNames \cup {"requests_total"}

\* the latency metrics and the error types in use
LatencyNames == {"query_response", "request"}

ErrorTypes == {"llm_error", "retrieval_error"}

\* LatencyStats(): min is <<>> for float('inf') and <<v>> for the number v
LatencyStats == [count |-> 0, total |-> 0, min |-> <<>>, max |-> 0]

\* LatencyStats.record
LatencyStats_record(self, value) ==
  [count |-> self.count + 1,
   total |-> self.total + value,
   min |-> IF self.min = <<>> THEN <<value>>
           ELSE IF value < self.min[1] THEN <<value>> ELSE self.min,
   max |-> IF self.max < value THEN value ELSE self.max]

\* MetricsCollector.__init__: the counters, the latencies and the errors;
\* each is a defaultdict, here a function that gives every name in use the
\* default value until it is written
MetricsCollector ==
  [counters |-> [c \in Counters |-> 0],
   latencies |-> [name \in LatencyNames |-> LatencyStats],
   errors |-> [e \in ErrorTypes |-> 0]]

\* self._metrics.increment(name) as the handler calls it: the attribute
\* lookup on a MetricsCollector, then the call
metrics_increment(self, name) ==
  IF "increment" \in MetricsCollector_methods
  THEN [self |-> [self EXCEPT !.counters[name] = @ + 1], raised |-> None]
  ELSE [self |-> self, raised |-> "AttributeError"]

\* MetricsCollector.record_latency
MetricsCollector_record_latency(self, name, duration) ==
  [self EXCEPT !.latencies[name] = LatencyStats_record(@, duration)]

\* MetricsCollector.increment_counter
MetricsCollector_increment_counter(self, name, value) ==
  [self EXCEPT !.counters[name] = @ + value]

\* MetricsCollector.record_error
MetricsCollector_record_error(self, error_type) ==
  [self EXCEPT !.errors[error_type] = @ + 1]

RECURSIVE Sum(_, _)
Sum(f, S) ==
  IF S = {} THEN 0
  ELSE LET x == CHOOSE y \in S : TRUE
       IN  f[x] + Sum(f, S \ {x})

\* summary["total_errors"] of get_summary
total_errors(self) == Sum(self.errors, DOMAIN self.errors)

\* mutant: the limits 10% and 5% belong to the worse class
get_health_status_inclusive(self) ==
  LET total_requests == self.counters["requests_total"]
  IN  IF total_requests > 0 /\ 10 * total_errors(self) >= total_requests
      THEN "unhealthy"
      ELSE IF total_requests > 0 /\ 20 * total_errors(self) >= total_requests
      THEN "degraded"
      ELSE "healthy"

\* MetricsCollector.get_health_status: its "status". error_rate is the
\* double nearest total_errors / total_requests, or 0.0 without requests;
\* for counts below 2^50 it is above the double 0.1 exactly when
\* 10 * total_errors > total_requests, and above 0.05 exactly when
\* 20 * total_errors > total_requests
get_health_status(self) ==
  LET total_requests == self.counters["requests_total"]
  IN  IF total_requests > 0 /\ 10 * total_errors(self) > total_requests
      THEN "unhealthy"
      ELSE IF total_requests > 0 /\ 20 * total_errors(self) > total_requests
      THEN "degraded"
      ELSE "healthy"

\* mutant: the sample is recorded only when the block ends normally
measure_latency_no_finally(self, name, block) ==
  [self |-> IF block.raised = None
            THEN MetricsCollector_record_latency(self, name, block.duration)
            ELSE self,
   raised |-> block.raised]

\* MetricsCollector.measure_latency around a block that takes block.duration
\* and raises block.raised (None when it ends normally): the finally clause
\* records the sample and an exception goes on to the caller
measure_latency(self, name, block) ==
  [self |-> MetricsCollector_record_latency(self, name, block.duration),
   raised |-> block.raised]

\* the function wrapped by timed(metric_name), called on the collector self
timed(self, metric_name, block) == measure_latency(self, metric_name, block)

\* -------------------------------------------------------------- NutritionBot

SLOW_DOWN ==
  "You're sending messages too quickly. Please wait a moment and try again."

APOLOGY ==
  "I apologize, but I encountered an error processing your request. Please try again or rephrase your question."

NO_RESPONSE ==
  "I apologize, but I couldn't generate a response. Please try again."

\* a response dict of the agent without the key "output"
Missing == "Missing"

\* the response cache (its factory is not part of the sources): an LRUCache
\* whose entries live five minutes
ResponseCacheMaxSize == 2

ResponseCache == LRUCache(ResponseCacheMaxSize, 300)

\* how a call of the handler ends: the services as it leaves them, whether
\* it returns or raises and what, and the calls it made on its way
Outcome(l, lim, m, t, kind, value, calls) ==
  [lru |-> l, limiter |-> lim, metrics |-> m, now |-> t,
   kind |-> kind, value |-> value, calls |-> calls]

\* the truth value Python gives a cached response
Truthy(v) == v # None /\ v # ""

\* the except clause of handle_customer_query
handle_except(l, lim, m, t, calls) ==
  LET i == metrics_increment(m, "errors")
      c == Append(calls, "metrics.increment")
  IN  IF i.raised # None
      THEN Outcome(l, lim, i.self, t, "raise", i.raised, c)
      ELSE Outcome(l, lim, i.self, t, "return", APOLOGY, c)

\* the try block of handle_customer_query, for the cache key, with the
\* memory enabled or not and an agent that ends as agent says
handle_try(key, l, lim, m, t, calls, memory_enabled, agent) ==
  LET i == metrics_increment(m, "llm_requests")
      c1 == calls \o <<"metrics.increment", "agent_executor.invoke">>
      output == IF agent.output = Missing THEN NO_RESPONSE
                ELSE agent.output
      l1 == LRUCache_set(l, key, output, NoTtl, t)
      c2 == c1 \o <<"cache.set">>
              \o (IF memory_enabled THEN <<"memory.add">> ELSE <<>>)
              \o <<"metrics.record_latency", "metrics.increment">>
      m1 == MetricsCollector_record_latency(i.self, "query_response", t - now)
      j == metrics_increment(m1, "successful_responses")
  IN  IF i.raised # None
      THEN handle_except(l, lim, i.self, t, Append(calls, "metrics.increment"))
      ELSE IF agent.raised # None
      THEN handle_except(l, lim, i.self, t, c1)
      ELSE IF j.raised # None
      THEN handle_except(l1, lim, j.self, t, c2)
      ELSE Outcome(l1, lim, j.self, t, "return", output, c2)

\* NutritionBot._generate_cache_key: the digest of f"{user_id}:{query}",
\* taken as one-to-one on the two values that are formatted
generate_cache_key(user_id, text) == <<user_id, text>>

\* handle_customer_query once the rate limiter has granted the request
handle_granted(u, q, lim, t, calls, memory_enabled, agent) ==
  LET key == generate_cache_key(u, q)
      g == LRUCache_get(lru, key, t)
      c1 == calls \o <<"cache.get", "metrics.increment">>
      hit == metrics_increment(metrics, "cache_hits")
      miss == metrics_increment(metrics, "cache_misses")
      c2 == c1 \o (IF memory_enabled THEN <<"memory.search">> ELSE <<>>)
  IN  IF Truthy(g.value)
      THEN IF hit.raised # None
           THEN Outcome(g.self, lim, hit.self, t, "raise", hit.raised, c1)
           ELSE Outcome(g.self, lim, hit.self, t, "return", g.value, c1)
      ELSE IF miss.raised # None
      THEN Outcome(g.self, lim, miss.self, t, "raise", miss.raised, c1)
      ELSE handle_try(key, g.self, lim, miss.self, t, c2, memory_enabled,
                      agent)

\* NutritionBot.handle_customer_query(user_id, text) called at time now.
\* The validator returns its tuples and raises nothing, so the names
\* user_id and query are bound to tuples from then on.
handle_customer_query(user_id, text, memory_enabled, agent) ==
  LET u == validate_user_id(user_id)
      q == validate_query(text)
      c1 == <<"validator.validate_user_id", "validator.validate_query",
              "rate_limiter.acquire">>
      acq == RateLimiter_acquire(limiter, <<"str", "user:", u>>,
                                 DefaultTimeout, now)
      refused == metrics_increment(metrics, "rate_limit_exceeded")
      c2 == Append(c1, "metrics.increment")
  IN  IF acq.raised # None
      THEN Outcome(lru, acq.self, metrics, acq.t, "raise", acq.raised, c1)
      ELSE IF ~acq.value
      THEN IF refused.raised # None
           THEN Outcome(lru, acq.self, refused.self, acq.t, "raise",
                        refused.raised, c2)
           ELSE Outcome(lru, acq.self, refused.self, acq.t, "return",
                        SLOW_DOWN, c2)
      ELSE handle_granted(u, q, acq.self, acq.t, c1, memory_enabled, agent)

\* the callers of the handler

MaxRequests == 2

UserIds == {<<"u">>, <<"v">>, <<>>, <<"u", "!">>}

HandlerQueries ==
  {<<"word">>, <<"word", " ", "word">>, <<>>, <<"a">>,
   <<"word", "<script>">>, <<LongWord>>}

\* what the agent executor does if it is invoked
AgentOutcomes ==
  {[raised |-> None, output |-> "answer"],
   [raised |-> None, output |-> ""],
   [raised |-> None, output |-> Missing],
   [raised |-> "Exception", output |-> Missing]}


HandlerInit ==
  /\ NoRun
  /\ now = 0
  /\ lru = ResponseCache
  /\ limiter = RateLimiter(0)
  /\ bucket = NotConstructed
  /\ metrics = MetricsCollector
  /\ \E m \in BOOLEAN : ret = [n |-> 0, op |-> "__init__", memory_enabled |-> m]
  /\ used = <<>>
  /\ batcher = NotConstructed
  /\ threads = NotConstructed
  /\ locks = NotConstructed

call_handle_customer_query ==
  /\ ret.n < MaxRequests
  /\ \E user_id \in UserIds, text \in HandlerQueries, agent \in AgentOutcomes :
       LET o == handle_customer_query(user_id, text, ret.memory_enabled, agent)
       IN  /\ lru' = o.lru
           /\ limiter' = o.limiter
           /\ metrics' = o.metrics
           /\ now' = o.now
           /\ ret' = [n |-> ret.n + 1, op |-> "handle_customer_query",
                      memory_enabled |-> ret.memory_enabled,
                      user_id |-> user_id, query |-> text, agent |-> agent,
                      kind |-> o.kind, value |-> o.value, calls |-> o.calls,
                      before |-> [lru |-> lru, limiter |-> limiter,
                                  metrics |-> metrics]]
  /\ UNCHANGED <<used, bucket, threads, locks, batcher, vars>>

HandlerNext ==
  \/ call_handle_customer_query
  \/ Tick

HandlerSpec == HandlerInit /\ [][HandlerNext]_allvars

\* the inputs the validator is to refuse
InvalidUserIds == {<<>>, <<"u", "!">>}

InvalidQueries == {<<>>, <<"a">>, <<"word", "<script>">>, <<LongWord>>}

\* the messages of the validation errors
ValidationMessages ==
  {"Query cannot be empty", "Query must be at least 3 characters",
   "Query cannot exceed 5000 characters",
   "Query contains potentially harmful content",
   "Query contains invalid characters", "User ID cannot be empty",
   "User ID cannot exceed 100 characters",
   "User ID contains invalid characters"}

Handled == ret.op = "handle_customer_query"

ValidRequest ==
  ret.user_id \notin InvalidUserIds /\ ret.query \notin InvalidQueries

\* the first request made to a process just started: the cache is empty
\* and the buckets of the rate limiter are full
FirstRequest == Handled /\ ret.n = 1

Made(call) == \E i \in 1..Len(ret.calls) : ret.calls[i] = call

Times(call) == Cardinality({i \in 1..Len(ret.calls) : ret.calls[i] = call})

Refused ==
  limiter.blocked_requests = ret.before.limiter.blocked_requests + 1

\* C12: a request whose controller run meets a failing Generator or
\* Retriever (here the first valid request of a process whose agent fails
\* when invoked) invokes it once, runs nothing after it, and the handler
\* returns the apology with exactly one error added to the metrics.
C12_FailureIsFatal ==
  (FirstRequest /\ ValidRequest /\ ret.agent.raised # None) =>
    /\ ret.kind = "return"
    /\ ret.value = APOLOGY
    /\ Times("agent_executor.invoke") = 1
    /\ ~Made("cache.set")
    /\ metrics.counters["errors"] = ret.before.metrics.counters["errors"] + 1

\* C13: the handler always returns a string and never raises to its caller.
C13_NeverPropagates == Handled => ret.kind = "return"

\* C14: on an invalid user id or query the handler returns a validation
\* message and calls neither the rate limiter, the cache, the memory nor
\* the agent.
C14_ValidationFailsFast ==
  (Handled /\ ~ValidRequest) =>
    /\ ret.kind = "return"
    /\ ret.value \in ValidationMessages
    /\ \A c \in {"rate_limiter.acquire", "cache.get", "cache.set",
                  "memory.search", "memory.add", "agent_executor.invoke"} :
         ~Made(c)
    /\ limiter = ret.before.limiter
    /\ lru = ret.before.lru

\* C15: when the rate limiter refuses, the handler returns the slow-down
\* message without a cache lookup or an agent invocation, counts the
\* refusal under rate_limit_exceeded and records no error.
C15_RefusalIsSoft ==
  (Handled /\ Refused) =>
    /\ ret.kind = "return"
    /\ ret.value = SLOW_DOWN
    /\ ~Made("cache.get")
    /\ ~Made("agent_executor.invoke")
    /\ metrics.counters["rate_limit_exceeded"] =
         ret.before.metrics.counters["rate_limit_exceeded"] + 1
    /\ metrics.counters["errors"] = ret.before.metrics.counters["errors"]
    /\ metrics.errors = ret.before.metrics.errors

\* C16: a valid request answered from the cache returns the value of a live
\* entry without invoking the agent or the memory; on a miss (as for the
\* first request of a process) the agent is invoked exactly once and its
\* response is stored in the cache and returned.
C16_CacheFastPath ==
  /\ (FirstRequest /\ ValidRequest /\ ret.agent.raised = None) =>
       /\ ret.kind = "return"
       /\ Times("agent_executor.invoke") = 1
       /\ \E i \in 1..Len(lru.cache) : lru.cache[i].value = ret.value
  /\ (Handled /\ ValidRequest /\ ret.kind = "return"
        /\ ret.value \notin {SLOW_DOWN, APOLOGY}) =>
       \/ /\ Times("agent_executor.invoke") = 1
          /\ \E i \in 1..Len(lru.cache) : lru.cache[i].value = ret.value
       \/ /\ ~Made("agent_executor.invoke")
          /\ ~Made("memory.search")
          /\ \E i \in 1..Len(ret.before.lru.cache) :
               /\ ret.before.lru.cache[i].value = ret.value
               /\ ~is_expired(ret.before.lru.cache[i], now)

\* C21: a set on a key the cache already holds removes no other key and
\* leaves the number of entries as it was, also when the cache is full.
C21_Step ==
  (ret'.n = ret.n + 1 /\ ret'.op = "set" /\ ret'.key \in CacheKeys(lru.cache)) =>
    /\ CacheKeys(lru'.cache) = CacheKeys(lru.cache)
    /\ Len(lru'.cache) = Len(lru.cache)

C21_OverwriteEvictsNothing == [][C21_Step]_allvars

\* ------------------------------------------------------- threads and locks

Threads == {"t1", "t2"}

\* a Lock no thread holds
Free == "Free"

Idle == [pc |-> "idle"]

\* mutant: the with statement lets a thread in whoever holds the lock
CanEnter_always(lks, lk) == TRUE

\* with self._lock: a thread gets in when no thread holds the lock
CanEnter(lks, lk) == lks[lk] = Free

\* ------------------------------------------- threads sharing one LRUCache

MaxStarted == 4

ConcKeys == {"k1", "k2"}

ConcTtls == {NoTtl, <<1>>}

\* the calls a thread may make on the cache
CacheCalls ==
  [op : {"get", "invalidate"}, key : ConcKeys, ttl : {NoTtl}]
    \cup [op : {"set"}, key : ConcKeys, ttl : ConcTtls]
    \cup [op : {"clear", "cleanup_expired"}, key : {None}, ttl : {NoTtl}]

\* the body of the method of call, run on the cache self at time t
LRUCache_call(call, self, t) ==
  CASE call.op = "get" -> LRUCache_get(self, call.key, t).self
    [] call.op = "set" -> LRUCache_set(self, call.key, "v1", call.ttl, t)
    [] call.op = "invalidate" -> LRUCache_invalidate(self, call.key).self
    [] call.op = "clear" -> LRUCache_clear(self)
    [] call.op = "cleanup_expired" -> LRUCache_cleanup_expired(self, t).self

\* ret counts the calls started and completed and the gets completed since
\* the last clear, and keeps in atomic the cache there would be had every
\* call taken effect at once when it completed
ConcCacheInit ==
  /\ NoRun
  /\ now = 0
  /\ \E m \in 1..MaxCacheSize, d \in DefaultTtls :
       /\ lru = LRUCache(m, d)
       /\ ret = [n |-> 0, started |-> 0, gets |-> 0, atomic |-> LRUCache(m, d)]
  /\ used = <<>>
  /\ batcher = NotConstructed
  /\ limiter = NotConstructed
  /\ bucket = NotConstructed
  /\ metrics = NotConstructed
  /\ threads = [th \in Threads |-> Idle]
  /\ locks = [lk \in {"cache"} |-> Free]

\* a thread calls a method of the cache and comes to its with statement
cache_call ==
  /\ ret.started < MaxStarted
  /\ \E th \in Threads, call \in CacheCalls :
       /\ threads[th].pc = "idle"
       /\ threads' = [threads EXCEPT ![th] = [pc |-> "with", call |-> call]]
  /\ ret' = [ret EXCEPT !.started = @ + 1]
  /\ UNCHANGED <<now, lru, used, limiter, bucket, metrics, locks, batcher, vars>>

\* the thread takes the lock and reads the fields of the cache
cache_enter ==
  /\ \E th \in Threads :
       /\ threads[th].pc = "with"
       /\ CanEnter(locks, "cache")
       /\ locks' = [locks EXCEPT !["cache"] = th]
       /\ threads' = [threads EXCEPT ![th] =
                        [pc |-> "body", call |-> threads[th].call,
                         self |-> lru]]
  /\ UNCHANGED <<now, lru, ret, used, limiter, bucket, metrics, batcher, vars>>

\* the thread writes the fields as the body leaves them, releases the lock
\* and returns
cache_leave ==
  /\ \E th \in Threads :
       /\ threads[th].pc = "body"
       /\ lru' = LRUCache_call(threads[th].call, threads[th].self, now)
       /\ locks' = [locks EXCEPT !["cache"] = Free]
       /\ threads' = [threads EXCEPT ![th] = Idle]
       /\ ret' = [ret EXCEPT
                    !.n = @ + 1,
                    !.gets = CASE threads[th].call.op = "get" -> @ + 1
                               [] threads[th].call.op = "clear" -> 0
                               [] OTHER -> @,
                    !.atomic = LRUCache_call(threads[th].call, @, now)]
  /\ UNCHANGED <<now, used, limiter, bucket, metrics, batcher, vars>>

ConcCacheNext ==
  \/ cache_call
  \/ cache_enter
  \/ cache_leave
  \/ Tick

ConcCacheSpec == ConcCacheInit /\ [][ConcCacheNext]_allvars

\* C22: whatever way the calls of several threads on one cache interleave,
\* the cache is the one that results from the completed calls taking effect
\* one at a time: it never holds more than max_size entries and hits +
\* misses is the number of gets completed since construction or the last
\* clear.
C22_Atomic ==
  /\ Len(lru.cache) <= lru.max_size
  /\ lru.hits + lru.misses = ret.gets
  /\ lru = ret.atomic

C22_Witness ==
  /\ \E th \in Threads, other \in Threads :
       /\ threads[th].pc = "body"
       /\ threads[th].call.op = "set"
       /\ threads[other].pc = "with"
       /\ threads[other].call.op = "get"
  /\ ret.gets = 1
  /\ lru.hits = 1
  /\ Len(lru.cache) = lru.max_size

\* ----------------------------------------- threads sharing one TokenBucket

\* an argument left out (None)
NoArg == <<>>

\* TokenBucket.__init__ at time t, the amounts in whole tokens and the times
\* in ticks of 0.1 s: rate is a positive even number of tokens per tick (a
\* rate of 0 would make the division of line 85 a ZeroDivisionError), and
\* capacity and initial_tokens are NoArg or <<x>> with x >= 0
TokenBucket_init(rate, capacity, initial_tokens, t) ==
  LET cap == IF capacity = NoArg \/ capacity = <<0>>
             THEN (rate * 3) \div 2
             ELSE capacity[1]
  IN  [rate |-> rate, capacity |-> cap,
       tokens |-> IF initial_tokens # NoArg THEN initial_tokens[1] ELSE cap,
       last_update |-> t]

\* mutant: the tokens are there only when more than the amount asked are
Enough_strict(self, tokens) == self.tokens > tokens

\* mutant: the tokens are taken whether or not they are there
Enough_always(self, tokens) == TRUE

\* line 76 of TokenBucket.acquire: are the tokens asked for there
Enough(self, tokens) == self.tokens >= tokens

\* mutant: the timeout is reached only once more than timeout has passed
TimedOut_late(elapsed, timeout) == timeout # NoArg /\ elapsed > timeout[1]

\* lines 88-91: the timeout check made after a failed attempt
TimedOut(elapsed, timeout) == timeout # NoArg /\ elapsed >= timeout[1]

\* mutant: the with block is left with its lock still held
with_exit_held(lks, lk) == lks

\* the end of a with block: the lock is released
with_exit(lks, lk) == [lks EXCEPT ![lk] = Free]

MaxTicks == 3

MaxAcquires == 2

Rates == {2}

Capacities == {NoArg, <<4>>}

InitialTokens == {NoArg, <<6>>}

Amounts == {0, 1, 3, 5}

\* the amounts asked for with a timeout: within the capacity and above it
WaitAmounts == {3, 5}

Timeouts == {<<0>>, <<2>>}

\* the calls a thread may make on the bucket: acquire without blocking,
\* acquire with a finite timeout, and a read of available_tokens
BucketCalls ==
  [op : {"acquire"}, tokens : Amounts, blocking : {FALSE}, timeout : {NoArg}]
    \cup [op : {"acquire"}, tokens : WaitAmounts, blocking : {TRUE},
          timeout : Timeouts]
    \cup [op : {"available_tokens"}, tokens : {0}, blocking : {FALSE},
          timeout : {NoArg}]

\* ret counts the calls started and returned, tells whether a refill has
\* been made, and keeps the call that returned last, the value acquire
\* returned (TRUE for another call) and, in available, the tokens the bucket
\* had at the return, which is what available_tokens returns
BucketInit ==
  /\ NoRun
  /\ now = 0
  /\ lru = NotConstructed
  /\ used = NotConstructed
  /\ batcher = NotConstructed
  /\ limiter = NotConstructed
  /\ metrics = NotConstructed
  /\ \E rate \in Rates, capacity \in Capacities, initial \in InitialTokens :
       bucket = TokenBucket_init(rate, capacity, initial, 0)
  /\ ret = [n |-> 0, started |-> 0, refilled |-> FALSE, op |-> "__init__"]
  /\ threads = [th \in Threads |-> Idle]
  /\ locks = [lk \in {"bucket"} |-> Free]

\* the call of the thread th returns value
BucketReturned(th, value) ==
  /\ threads' = [threads EXCEPT ![th] = Idle]
  /\ ret' = [n |-> ret.n + 1, started |-> ret.started, refilled |-> TRUE,
             op |-> threads[th].call.op, call |-> threads[th].call,
             value |-> value, available |-> bucket'.tokens]

\* a thread makes a call (line 70: start_time = time.monotonic()); a call
\* with a timeout is made early enough for the timeout to pass within
\* MaxTicks
call_one_of(calls) ==
  /\ ret.started < MaxAcquires
  /\ \E th \in Threads, call \in calls :
       /\ threads[th].pc = "idle"
       /\ call.timeout # NoArg => now + call.timeout[1] <= MaxTicks
       /\ threads' = [threads EXCEPT ![th] =
                        [pc |-> "with", call |-> call, start_time |-> now]]
  /\ ret' = [ret EXCEPT !.started = @ + 1]
  /\ UNCHANGED <<now, lru, used, limiter, bucket, metrics, locks, batcher, vars>>

bucket_call == call_one_of(BucketCalls)

\* line 73: the thread takes the lock of the bucket
bucket_enter ==
  /\ \E th \in Threads :
       /\ threads[th].pc = "with"
       /\ CanEnter(locks, "bucket")
       /\ locks' = [locks EXCEPT !["bucket"] = th]
       /\ threads' = [threads EXCEPT ![th].pc = "refill"]
  /\ UNCHANGED <<now, lru, ret, used, limiter, bucket, metrics, batcher, vars>>

\* lines 74-76 and 80-85 of acquire: the refill and the test; without the
\* tokens the call returns False when not blocking, or else leaves the with
\* block to wait for the tokens it still needs
bucket_refill ==
  /\ \E th \in Threads :
       /\ threads[th].pc = "refill"
       /\ threads[th].call.op = "acquire"
       /\ bucket' = TokenBucket_refill(bucket, now)
       /\ IF Enough(bucket', threads[th].call.tokens)
          THEN /\ threads' = [threads EXCEPT ![th].pc = "take"]
               /\ ret' = [ret EXCEPT !.refilled = TRUE]
               /\ UNCHANGED locks
          ELSE IF ~threads[th].call.blocking
          THEN /\ BucketReturned(th, FALSE)
               /\ locks' = with_exit(locks, "bucket")
          ELSE /\ threads' = [threads EXCEPT ![th] =
                                [pc |-> "check", call |-> threads[th].call,
                                 start_time |-> threads[th].start_time,
                                 tokens_needed |->
                                   threads[th].call.tokens - bucket'.tokens]]
               /\ ret' = [ret EXCEPT !.refilled = TRUE]
               /\ locks' = with_exit(locks, "bucket")
  /\ UNCHANGED <<now, lru, used, limiter, metrics, batcher, vars>>

\* lines 77-78: self._tokens -= tokens; return True
bucket_take ==
  /\ \E th \in Threads :
       /\ threads[th].pc = "take"
       /\ bucket' = [bucket EXCEPT !.tokens = @ - threads[th].call.tokens]
       /\ locks' = with_exit(locks, "bucket")
       /\ BucketReturned(th, TRUE)
  /\ UNCHANGED <<now, lru, used, limiter, metrics, batcher, vars>>

\* the property available_tokens: the refill under the lock
bucket_available_tokens ==
  /\ \E th \in Threads :
       /\ threads[th].pc = "refill"
       /\ threads[th].call.op = "available_tokens"
       /\ bucket' = TokenBucket_refill(bucket, now)
       /\ locks' = with_exit(locks, "bucket")
       /\ BucketReturned(th, TRUE)
  /\ UNCHANGED <<now, lru, used, limiter, metrics, batcher, vars>>

\* lines 88-94: the timeout check, then the sleep of min(wait_time, 0.1)
\* with wait_time = tokens_needed / rate cut to the time left: a whole tick
\* when the bucket needs a tick or more to refill, less than a tick if not
bucket_check ==
  /\ UNCHANGED <<now, lru, used, limiter, bucket, metrics, locks, batcher, vars>>
  /\ \E th \in Threads :
       /\ threads[th].pc = "check"
       /\ IF TimedOut(now - threads[th].start_time, threads[th].call.timeout)
          THEN BucketReturned(th, FALSE)
          ELSE /\ threads' = [threads EXCEPT ![th] =
                                [pc |-> "sleep", call |-> threads[th].call,
                                 start_time |-> threads[th].start_time,
                                 wake_at |->
                                   IF threads[th].tokens_needed >= bucket.rate
                                   THEN now + 1 ELSE now]]
               /\ UNCHANGED ret

\* the sleep is over and the loop of acquire starts again
bucket_wake ==
  /\ \E th \in Threads :
       /\ threads[th].pc = "sleep"
       /\ now >= threads[th].wake_at
       /\ threads' = [threads EXCEPT ![th] =
                        [pc |-> "with", call |-> threads[th].call,
                         start_time |-> threads[th].start_time]]
  /\ UNCHANGED <<now, lru, ret, used, limiter, bucket, metrics, locks, batcher, vars>>

\* a tick of 0.1 s passes on the monotonic clock
bucket_tick ==
  /\ now < MaxTicks
  /\ now' = now + 1
  /\ UNCHANGED <<lru, ret, used, limiter, bucket, metrics, threads, locks, batcher, vars>>

BucketNext ==
  \/ bucket_call
  \/ bucket_enter
  \/ bucket_refill
  \/ bucket_take
  \/ bucket_available_tokens
  \/ bucket_check
  \/ bucket_wake
  \/ bucket_tick

BucketSpec == BucketInit /\ [][BucketNext]_allvars

\* threads that only make acquires with a timeout, on a bucket built with
\* its default capacity
WaitCalls ==
  [op : {"acquire"}, tokens : WaitAmounts, blocking : {TRUE},
   timeout : Timeouts]

WaitInit ==
  /\ NoRun
  /\ now = 0
  /\ lru = NotConstructed
  /\ used = NotConstructed
  /\ batcher = NotConstructed
  /\ limiter = NotConstructed
  /\ metrics = NotConstructed
  /\ \E rate \in Rates, initial \in InitialTokens :
       bucket = TokenBucket_init(rate, NoArg, initial, 0)
  /\ ret = [n |-> 0, started |-> 0, refilled |-> FALSE, op |-> "__init__"]
  /\ threads = [th \in Threads |-> Idle]
  /\ locks = [lk \in {"bucket"} |-> Free]

bucket_wait_call == call_one_of(WaitCalls)

WaitNext ==
  \/ bucket_wait_call
  \/ bucket_enter
  \/ bucket_refill
  \/ bucket_take
  \/ bucket_check
  \/ bucket_wake
  \/ bucket_tick

\* every thread is scheduled and the clock runs
FairBucketSpec ==
  /\ WaitInit
  /\ [][WaitNext]_allvars
  /\ \A th \in Threads : WF_allvars(WaitNext /\ threads'[th] # threads[th])
  /\ WF_allvars(bucket_tick)

\* C23: once a refill has been made (by an acquire or a read of
\* available_tokens), whatever the threads and the clock do, the tokens of
\* the bucket are between 0 and its capacity.
C23_Bounds ==
  ret.refilled => (0 <= bucket.tokens /\ bucket.tokens <= bucket.capacity)

C23_Witness ==
  /\ ret.n = 1
  /\ ret.op = "acquire"
  /\ ret.value = TRUE
  /\ ret.call.tokens = 3
  /\ bucket.tokens = 0
  /\ now > 0
  /\ \E th \in Threads : threads[th].pc = "sleep"

\* the tokens the bucket has once refilled at the present time
Refilled ==
  LET filled == bucket.tokens + (now - bucket.last_update) * bucket.rate
  IN  IF filled < bucket.capacity THEN filled ELSE bucket.capacity

\* the thread th takes a step
Steps(th) == threads'[th] # threads[th]

\* C24: acquire(n, blocking = False) returns True iff the refilled tokens
\* are at least n; it then leaves the bucket with the refilled tokens less
\* n; if not it returns False in the same step of the loop, without a sleep,
\* and leaves the bucket with the refilled tokens.
C24_Step ==
  \A th \in Threads :
    (threads[th].pc \in {"refill", "take"} /\ threads[th].call.op = "acquire"
       /\ ~threads[th].call.blocking) =>
      LET n == threads[th].call.tokens
      IN  /\ (threads[th].pc = "refill" /\ Steps(th)) =>
               /\ bucket'.tokens = Refilled
               /\ IF Refilled >= n
                  THEN threads'[th].pc = "take" /\ ret'.n = ret.n
                  ELSE /\ threads'[th].pc = "idle"
                       /\ ret'.n = ret.n + 1
                       /\ ret'.call = threads[th].call
                       /\ ret'.value = FALSE
          /\ (threads[th].pc = "take" /\ ~Steps(th)) => bucket' = bucket
          /\ (threads[th].pc = "take" /\ Steps(th)) =>
               /\ bucket'.tokens = bucket.tokens - n
               /\ threads'[th].pc = "idle"
               /\ ret'.n = ret.n + 1
               /\ ret'.call = threads[th].call
               /\ ret'.value = TRUE

C24_NonBlocking == [][C24_Step]_allvars

C24_Witness ==
  /\ ret.n = 2
  /\ ret.op = "acquire"
  /\ ~ret.call.blocking
  /\ ret.call.tokens = 3
  /\ ret.value = FALSE
  /\ bucket.tokens = 2
  /\ bucket.last_update = now

\* the call of the thread th returns value in this step
Returns(th, value) ==
  /\ threads'[th].pc = "idle"
  /\ ret'.n = ret.n + 1
  /\ ret'.call = threads[th].call
  /\ ret'.value = value

\* C25: acquire(n, blocking = True, timeout = T) always returns. An attempt
\* that finds the refilled tokens to be at least n takes exactly n and
\* returns True; one that does not takes nothing, and the timeout check that
\* follows it returns False when T or more has passed since the call and
\* lets the call sleep and try again when less has. A request for more than
\* the capacity thus never succeeds and returns False.
C25_Step ==
  \A th \in Threads :
    (threads[th].pc # "idle" /\ threads[th].call.blocking) =>
      LET n == threads[th].call.tokens
          T == threads[th].call.timeout[1]
          pc == threads[th].pc
      IN  /\ (pc = "with" /\ Steps(th)) =>
               threads'[th].pc = "refill" /\ bucket' = bucket
          /\ (pc = "refill" /\ Steps(th)) =>
               /\ bucket'.tokens = Refilled
               /\ ret'.n = ret.n
               /\ threads'[th].pc = IF Refilled >= n THEN "take" ELSE "check"
               /\ n > bucket.capacity => threads'[th].pc = "check"
          /\ (pc = "take" /\ ~Steps(th)) => bucket' = bucket
          /\ (pc = "take" /\ Steps(th)) =>
               bucket'.tokens = bucket.tokens - n /\ Returns(th, TRUE)
          /\ (pc = "check" /\ Steps(th)) =>
               /\ bucket' = bucket
               /\ IF now - threads[th].start_time >= T
                  THEN Returns(th, FALSE)
                  ELSE threads'[th].pc = "sleep" /\ ret' = ret
          /\ (pc = "sleep" /\ Steps(th)) =>
               threads'[th].pc = "with" /\ bucket' = bucket

C25_Returns ==
  /\ [][C25_Step]_allvars
  /\ \A th \in Threads : (threads[th].pc # "idle") ~> (threads[th].pc = "idle")

C25_Witness ==
  /\ ret.n = 2
  /\ ret.op = "acquire"
  /\ ret.call.tokens > bucket.capacity
  /\ ret.call.timeout = <<2>>
  /\ ret.value = FALSE
  /\ now >= 2
  /\ bucket.tokens > 0
  /\ \A th \in Threads : threads[th].pc = "idle"

\* ------------------------------------------------- callers of a RateLimiter

\* RateLimitConfig(): the default configuration
RateLimitConfig ==
  [requests_per_minute |-> requests_per_minute,
   requests_per_hour |-> requests_per_hour,
   tokens_per_minute |-> tokens_per_minute]

\* RateLimiter.__init__ with a configuration
RateLimiter_with(config, t) ==
  [rpm |-> TokenBucket(config.requests_per_minute, 60, t),
   rph |-> TokenBucket(config.requests_per_hour, 3600, t),
   tpm |-> TokenBucket(config.tokens_per_minute, 60, t),
   total_requests |-> 0, total_tokens |-> 0, blocked_requests |-> 0]

MaxLimiterCalls == 3

\* the default configuration, and one that allows a request a second
LimiterConfigs ==
  {RateLimitConfig, [RateLimitConfig EXCEPT !.requests_per_hour = 3600]}

\* estimated costs within and above the capacity of the tokens/minute bucket
EstimatedTokens == {1000, 3000}

LimiterTimeouts == {0, 1}

LimiterInit ==
  /\ NoRun
  /\ now = 0
  /\ lru = NotConstructed
  /\ used = NotConstructed
  /\ batcher = NotConstructed
  /\ \E config \in LimiterConfigs : limiter = RateLimiter_with(config, 0)
  /\ bucket = NotConstructed
  /\ metrics = NotConstructed
  /\ threads = NotConstructed
  /\ locks = NotConstructed
  /\ ret = [n |-> 0, op |-> "__init__"]

\* a call of RateLimiter.acquire, which returns when its waits are over
call_acquire ==
  /\ ret.n < MaxLimiterCalls
  /\ \E estimated_tokens \in EstimatedTokens, timeout \in LimiterTimeouts :
       LET r == RateLimiter_acquire(limiter, <<"int", estimated_tokens>>,
                                    timeout, now)
       IN  /\ limiter' = r.self
           /\ now' = r.t
           /\ ret' = [n |-> ret.n + 1, op |-> "acquire",
                      estimated_tokens |-> estimated_tokens,
                      timeout |-> timeout, value |-> r.value,
                      before |-> limiter]
  /\ UNCHANGED <<lru, used, bucket, metrics, threads, locks, batcher, vars>>

LimiterNext ==
  \/ call_acquire
  \/ Tick

LimiterSpec == LimiterInit /\ [][LimiterNext]_allvars

\* the bucket b2 is the bucket b1 refilled at the time of its last check and
\* without the n tokens it granted
Granted(b1, b2, n) ==
  LET filled == b1.tokens + (b2.last_update - b1.last_update) * b1.rate
      capped == IF filled < b1.capacity THEN filled ELSE b1.capacity
  IN  /\ b2.last_update >= b1.last_update
      /\ b2.tokens = capped - n * TokenUnit

\* the bucket b2 is the bucket b1 refilled at the time of its last check,
\* which left it short of n tokens
RefusedBy(b1, b2, n) ==
  LET filled == b1.tokens + (b2.last_update - b1.last_update) * b1.rate
      capped == IF filled < b1.capacity THEN filled ELSE b1.capacity
  IN  /\ b2.last_update >= b1.last_update
      /\ b2.tokens = capped
      /\ b2.tokens < n * TokenUnit

\* C26: acquire returns True iff the requests/minute, requests/hour and
\* tokens/minute buckets grant, asked in this order; it then adds 1 to
\* total_requests and the estimate to total_tokens. The first bucket that
\* refuses ends the call with False: the buckets after it are untouched,
\* the buckets before it keep what they granted, blocked_requests grows by
\* one and the totals are unchanged.
C26_Step ==
  (ret'.n = ret.n + 1 /\ ret'.op = "acquire") =>
    LET est == ret'.estimated_tokens
    IN  IF ret'.value
        THEN /\ Granted(limiter.rpm, limiter'.rpm, 1)
             /\ Granted(limiter.rph, limiter'.rph, 1)
             /\ Granted(limiter.tpm, limiter'.tpm, est)
             /\ limiter'.total_requests = limiter.total_requests + 1
             /\ limiter'.total_tokens = limiter.total_tokens + est
             /\ limiter'.blocked_requests = limiter.blocked_requests
        ELSE /\ \/ /\ RefusedBy(limiter.rpm, limiter'.rpm, 1)
                   /\ limiter'.rph = limiter.rph
                   /\ limiter'.tpm = limiter.tpm
                \/ /\ Granted(limiter.rpm, limiter'.rpm, 1)
                   /\ RefusedBy(limiter.rph, limiter'.rph, 1)
                   /\ limiter'.tpm = limiter.tpm
                \/ /\ Granted(limiter.rpm, limiter'.rpm, 1)
                   /\ Granted(limiter.rph, limiter'.rph, 1)
                   /\ RefusedBy(limiter.tpm, limiter'.tpm, est)
             /\ limiter'.blocked_requests = limiter.blocked_requests + 1
             /\ limiter'.total_requests = limiter.total_requests
             /\ limiter'.total_tokens = limiter.total_tokens

C26_AllThreeInOrder == [][C26_Step]_allvars

\* a grant, then a refusal by the tokens/minute bucket after the two
\* request buckets have granted
C26_Witness ==
  /\ ret.op = "acquire"
  /\ ret.n = 2
  /\ ret.value = FALSE
  /\ ret.before.total_requests = 1
  /\ limiter.blocked_requests = 1
  /\ limiter.tpm.tokens < ret.estimated_tokens * TokenUnit
  /\ Granted(ret.before.rpm, limiter.rpm, 1)
  /\ Granted(ret.before.rph, limiter.rph, 1)

\* -------------------------------------------- callers of a MetricsCollector

MaxMetricsCalls == 2

MaxErrorCount == 6

\* values of the counter requests_total a collector may have come to
RequestTotals == {0, 1, 20, 100}

Durations == {0, 1, 2}

\* the blocks measured: how long one takes and how it ends
Blocks == [duration : Durations, raised : {None, "Exception"}]

\* a collector that has counted some requests and recorded some errors
MetricsInit ==
  /\ NoRun
  /\ now = 0
  /\ lru = NotConstructed
  /\ used = NotConstructed
  /\ batcher = NotConstructed
  /\ limiter = NotConstructed
  /\ bucket = NotConstructed
  /\ threads = NotConstructed
  /\ locks = NotConstructed
  /\ \E total \in RequestTotals, errors \in [ErrorTypes -> 0..MaxErrorCount] :
       metrics = [MetricsCollector EXCEPT
                    !.counters["requests_total"] = total,
                    !.errors = errors]
  /\ ret = [n |-> 0, op |-> "__init__"]

call_increment_counter ==
  /\ ret.n < MaxMetricsCalls
  /\ metrics' = MetricsCollector_increment_counter(metrics, "requests_total", 1)
  /\ ret' = [n |-> ret.n + 1, op |-> "increment_counter"]
  /\ UNCHANGED <<now, lru, used, limiter, bucket, threads, locks, batcher, vars>>

call_record_error ==
  /\ ret.n < MaxMetricsCalls
  /\ \E error_type \in ErrorTypes :
       metrics' = MetricsCollector_record_error(metrics, error_type)
  /\ ret' = [n |-> ret.n + 1, op |-> "record_error"]
  /\ UNCHANGED <<now, lru, used, limiter, bucket, threads, locks, batcher, vars>>

call_get_health_status ==
  /\ ret.n < MaxMetricsCalls
  /\ ret' = [n |-> ret.n + 1, op |-> "get_health_status",
             value |-> get_health_status(metrics)]
  /\ UNCHANGED <<now, lru, used, limiter, bucket, metrics, threads, locks, batcher, vars>>

\* a with metrics.measure_latency(name) block
call_measure_latency ==
  /\ ret.n < MaxMetricsCalls
  /\ \E name \in LatencyNames, block \in Blocks :
       LET r == measure_latency(metrics, name, block)
       IN  /\ metrics' = r.self
           /\ ret' = [n |-> ret.n + 1, op |-> "measure_latency",
                      name |-> name, block |-> block, raised |-> r.raised]
  /\ UNCHANGED <<now, lru, used, limiter, bucket, threads, locks, batcher, vars>>

\* a call of a function decorated with timed(name)
call_timed ==
  /\ ret.n < MaxMetricsCalls
  /\ \E name \in LatencyNames, block \in Blocks :
       LET r == timed(metrics, name, block)
       IN  /\ metrics' = r.self
           /\ ret' = [n |-> ret.n + 1, op |-> "timed",
                      name |-> name, block |-> block, raised |-> r.raised]
  /\ UNCHANGED <<now, lru, used, limiter, bucket, threads, locks, batcher, vars>>

MetricsNext ==
  \/ call_increment_counter
  \/ call_record_error
  \/ call_get_health_status
  \/ call_measure_latency
  \/ call_timed

MetricsSpec == MetricsInit /\ [][MetricsNext]_allvars

\* C27: get_health_status reports unhealthy iff the errors are more than
\* 10% of the requests, degraded iff they are more than 5% and at most 10%,
\* and healthy otherwise, without requests included; of 100 requests, 11
\* errors are unhealthy, 10 and 6 degraded, 5 and 2 healthy.
C27_Step ==
  (ret'.n = ret.n + 1 /\ ret'.op = "get_health_status") =>
    LET e == metrics.errors["llm_error"] + metrics.errors["retrieval_error"]
        r == metrics.counters["requests_total"]
    IN  /\ ret'.value \in {"unhealthy", "degraded", "healthy"}
        /\ ret'.value = "unhealthy" <=> (r > 0 /\ 100 * e > 10 * r)
        /\ ret'.value = "degraded" <=>
             (r > 0 /\ 100 * e > 5 * r /\ 100 * e <= 10 * r)
        /\ r = 0 => ret'.value = "healthy"
        /\ (r = 100 /\ e = 11) => ret'.value = "unhealthy"
        /\ (r = 100 /\ e \in {10, 6}) => ret'.value = "degraded"
        /\ (r = 100 /\ e \in {5, 2}) => ret'.value = "healthy"
        /\ metrics' = metrics

C27_Health == [][C27_Step]_allvars

C27_Witness ==
  /\ ret.op = "get_health_status"
  /\ metrics.counters["requests_total"] = 100
  /\ metrics.errors["llm_error"] + metrics.errors["retrieval_error"] = 10
  /\ ret.value = "degraded"

\* C28: a block under measure_latency, and a call of a function decorated
\* with timed, adds exactly one sample to the latency metric named and to
\* no other, however the block ends, and an exception of the block goes on
\* to the caller.
C28_Step ==
  (ret'.n = ret.n + 1 /\ ret'.op \in {"measure_latency", "timed"}) =>
    LET name == ret'.name
        was == metrics.latencies[name]
        is == metrics'.latencies[name]
    IN  /\ is.count = was.count + 1
        /\ is.total = was.total + ret'.block.duration
        /\ \A other \in LatencyNames \ {name} :
             metrics'.latencies[other] = metrics.latencies[other]
        /\ metrics'.counters = metrics.counters
        /\ metrics'.errors = metrics.errors
        /\ ret'.raised = ret'.block.raised

C28_ScopedTimer == [][C28_Step]_allvars

C28_Witness ==
  /\ ret.n = 2
  /\ ret.op = "timed"
  /\ ret.raised = "Exception"
  /\ metrics.latencies[ret.name].count = 2
  /\ metrics.latencies[ret.name].max = 2
  /\ metrics.latencies[ret.name].min = <<1>>

\* ------------------------------------ threads calling one MetricsCollector

MaxMetricsStarted == 4

Deltas == {1, 3}

\* the calls a thread may make on the collector
MetricsCalls ==
  [op : {"increment_counter"}, name : {"requests_total", "cache_hits"},
   value : Deltas]
    \cup [op : {"record_latency"}, name : LatencyNames, duration : Durations]
    \cup [op : {"record_error"}, error_type : ErrorTypes]

\* the collector a call leaves, from the fields its body has read
MetricsCollector_call(call, self) ==
  CASE call.op = "increment_counter" ->
         MetricsCollector_increment_counter(self, call.name, call.value)
    [] call.op = "record_latency" ->
         MetricsCollector_record_latency(self, call.name, call.duration)
    [] call.op = "record_error" ->
         MetricsCollector_record_error(self, call.error_type)

ConcMetricsInit ==
  /\ NoRun
  /\ now = 0
  /\ lru = NotConstructed
  /\ used = NotConstructed
  /\ batcher = NotConstructed
  /\ limiter = NotConstructed
  /\ bucket = NotConstructed
  /\ metrics = MetricsCollector
  /\ threads = [th \in Threads |-> Idle]
  /\ locks = [lk \in {"metrics"} |-> Free]
  /\ ret = [n |-> 0, started |-> 0,
            deltas |-> [c \in Counters |-> 0],
            durations |-> [name \in LatencyNames |-> <<>>],
            recorded |-> [e \in ErrorTypes |-> 0]]

\* a thread calls a method of the collector and comes to its with statement
metrics_call ==
  /\ ret.started < MaxMetricsStarted
  /\ \E th \in Threads, call \in MetricsCalls :
       /\ threads[th].pc = "idle"
       /\ threads' = [threads EXCEPT ![th] = [pc |-> "with", call |-> call]]
  /\ ret' = [ret EXCEPT !.started = @ + 1]
  /\ UNCHANGED <<now, lru, used, limiter, bucket, metrics, locks, batcher, vars>>

\* the thread takes the lock and reads the fields of the collector
metrics_enter ==
  /\ \E th \in Threads :
       /\ threads[th].pc = "with"
       /\ CanEnter(locks, "metrics")
       /\ locks' = [locks EXCEPT !["metrics"] = th]
       /\ threads' = [threads EXCEPT ![th] =
                        [pc |-> "body", call |-> threads[th].call,
                         self |-> metrics]]
  /\ UNCHANGED <<now, lru, ret, used, limiter, bucket, metrics, batcher, vars>>

\* the thread writes the fields as the body leaves them, releases the lock
\* and returns
metrics_leave ==
  /\ \E th \in Threads :
       LET call == threads[th].call
       IN  /\ threads[th].pc = "body"
           /\ metrics' = MetricsCollector_call(call, threads[th].self)
           /\ locks' = [locks EXCEPT !["metrics"] = Free]
           /\ threads' = [threads EXCEPT ![th] = Idle]
           /\ ret' = CASE call.op = "increment_counter" ->
                            [ret EXCEPT !.n = @ + 1,
                                        !.deltas[call.name] = @ + call.value]
                       [] call.op = "record_latency" ->
                            [ret EXCEPT !.n = @ + 1,
                                        !.durations[call.name] =
                                           Append(@, call.duration)]
                       [] call.op = "record_error" ->
                            [ret EXCEPT !.n = @ + 1,
                                        !.recorded[call.error_type] = @ + 1]
  /\ UNCHANGED <<now, lru, used, limiter, bucket, batcher, vars>>

ConcMetricsNext ==
  \/ metrics_call
  \/ metrics_enter
  \/ metrics_leave

ConcMetricsSpec == ConcMetricsInit /\ [][ConcMetricsNext]_allvars

\* C29: whatever way the increment_counter, record_latency and record_error
\* calls of several threads interleave, no update is lost: each counter is
\* the sum of the deltas of the completed calls for it, each latency metric
\* has the count, sum, min and max of the durations recorded for it, and
\* each error type counts the completed record_error calls for it.
C29_NoLostUpdate ==
  /\ \A c \in Counters : metrics.counters[c] = ret.deltas[c]
  /\ \A name \in LatencyNames :
       LET d == ret.durations[name]
           stats == metrics.latencies[name]
           recorded == {d[i] : i \in DOMAIN d}
       IN  /\ stats.count = Len(d)
           /\ stats.total = Sum(d, DOMAIN d)
           /\ stats.max = IF d = <<>> THEN 0
                          ELSE CHOOSE x \in recorded :
                                 \A y \in recorded : y <= x
           /\ stats.min = IF d = <<>> THEN <<>>
                          ELSE <<CHOOSE x \in recorded :
                                   \A y \in recorded : x <= y>>
  /\ \A e \in ErrorTypes : metrics.errors[e] = ret.recorded[e]

C29_Witness ==
  /\ \E th \in Threads, other \in Threads :
       /\ threads[th].pc = "body"
       /\ threads[th].call.op = "increment_counter"
       /\ threads[th].call.name = "requests_total"
       /\ threads[other].pc = "with"
       /\ threads[other].call.op = "increment_counter"
       /\ threads[other].call.name = "requests_total"
  /\ metrics.counters["requests_total"] = 4
  /\ ret.n = 2

\* ----------------- threads that block: cached LLM calls and bucket waits

MaxBlockingCalls == 3

\* the global LLM cache: 500 entries, one hour (in ticks of 0.1 s)
llm_cache == LRUCache(500, 36000)

\* what the function under cached_llm_call does: it returns a result, or
\* raises
FuncOutcomes == {"v1", "raise"}

\* the keys _make_key gives the calls of one decorated function
LlmKeys == {"k1"}

\* the shared locks of the services
SharedLocks == {"cache", "bucket", "limiter", "metrics"}

BlockingInit ==
  /\ NoRun
  /\ now = 0
  /\ lru = llm_cache
  /\ used = NotConstructed
  /\ batcher = NotConstructed
  /\ limiter = NotConstructed
  /\ metrics = NotConstructed
  /\ \E rate \in Rates, initial \in InitialTokens :
       bucket = TokenBucket_init(rate, NoArg, initial, 0)
  /\ ret = [n |-> 0, started |-> 0, refilled |-> FALSE, op |-> "__init__"]
  /\ threads = [th \in Threads |-> Idle]
  /\ locks = [lk \in SharedLocks |-> Free]

\* the wrapper of cached_llm_call returns in the thread th
LlmReturned(th, value) ==
  /\ threads' = [threads EXCEPT ![th] = Idle]
  /\ ret' = [n |-> ret.n + 1, started |-> ret.started,
             refilled |-> ret.refilled, op |-> "cached_llm_call",
             call |-> threads[th].call, value |-> value # "raise",
             result |-> value]

\* a thread calls a function decorated with cached_llm_call(ttl)
llm_call ==
  /\ ret.started < MaxBlockingCalls
  /\ \E th \in Threads, key \in LlmKeys, ttl \in ConcTtls :
       /\ threads[th].pc = "idle"
       /\ threads' = [threads EXCEPT ![th] =
                        [pc |-> "cache.get",
                         call |-> [op |-> "cached_llm_call", key |-> key,
                                   ttl |-> ttl]]]
  /\ ret' = [ret EXCEPT !.started = @ + 1]
  /\ UNCHANGED <<now, lru, used, limiter, bucket, metrics, locks, batcher, vars>>

\* cache.get(key): the whole body under the lock of the cache; a result
\* found is returned, if not the function is called
llm_cache_get ==
  /\ \E th \in Threads :
       /\ threads[th].pc = "cache.get"
       /\ CanEnter(locks, "cache")
       /\ LET r == LRUCache_get(lru, threads[th].call.key, now)
          IN  /\ lru' = r.self
              /\ locks' = with_exit([locks EXCEPT !["cache"] = th], "cache")
              /\ IF r.value # None
                 THEN LlmReturned(th, r.value)
                 ELSE /\ threads' = [threads EXCEPT ![th].pc = "func"]
                      /\ UNCHANGED ret
  /\ UNCHANGED <<now, used, limiter, bucket, metrics, batcher, vars>>

\* func(*args, **kwargs) comes back: with a result to store, or with an
\* exception that leaves the wrapper
llm_func ==
  /\ \E th \in Threads, outcome \in FuncOutcomes :
       /\ threads[th].pc = "func"
       /\ IF outcome = "raise"
          THEN LlmReturned(th, "raise")
          ELSE /\ threads' = [threads EXCEPT ![th] =
                                [pc |-> "cache.set", call |-> threads[th].call,
                                 result |-> outcome]]
               /\ UNCHANGED ret
  /\ UNCHANGED <<now, lru, used, limiter, bucket, metrics, locks, batcher, vars>>

\* cache.set(key, result, ttl): the whole body under the lock of the cache
llm_cache_set ==
  /\ \E th \in Threads :
       /\ threads[th].pc = "cache.set"
       /\ CanEnter(locks, "cache")
       /\ lru' = LRUCache_set(lru, threads[th].call.key, threads[th].result,
                              threads[th].call.ttl, now)
       /\ locks' = with_exit([locks EXCEPT !["cache"] = th], "cache")
       /\ LlmReturned(th, threads[th].result)
  /\ UNCHANGED <<now, used, limiter, bucket, metrics, batcher, vars>>

BlockingNext ==
  \/ llm_call
  \/ llm_cache_get
  \/ llm_func
  \/ llm_cache_set
  \/ bucket_wait_call
  \/ bucket_enter
  \/ bucket_refill
  \/ bucket_take
  \/ bucket_check
  \/ bucket_wake
  \/ bucket_tick

BlockingSpec == BlockingInit /\ [][BlockingNext]_allvars

\* a thread inside the function a cached call wraps (the Generator call), or
\* asleep in TokenBucket.acquire
Blocked(th) == threads[th].pc \in {"func", "sleep"}

RunScripts == {ScenarioB, <<T_08, T_03>>}

\* the run of the request whose thread is running is in the variables of
\* the workflow; threads holds the run of the other request, if there is
\* one, as its thread left it
RunState ==
  [query |-> query, expanded_query |-> expanded_query, context |-> context,
   response |-> response, precision_score |-> precision_score,
   groundedness_score |-> groundedness_score,
   groundedness_loop_count |-> groundedness_loop_count,
   precision_loop_count |-> precision_loop_count, feedback |-> feedback,
   query_feedback |-> query_feedback, loop_max_iter |-> loop_max_iter,
   node |-> node, route |-> route, last |-> last, trace |-> trace,
   raw_score |-> raw_score, last_call |-> last_call, evaluator |-> evaluator]

\* the thread of the run r goes on where it was
Resume(r) ==
  /\ query' = r.query
  /\ expanded_query' = r.expanded_query
  /\ context' = r.context
  /\ response' = r.response
  /\ precision_score' = r.precision_score
  /\ groundedness_score' = r.groundedness_score
  /\ groundedness_loop_count' = r.groundedness_loop_count
  /\ precision_loop_count' = r.precision_loop_count
  /\ feedback' = r.feedback
  /\ query_feedback' = r.query_feedback
  /\ loop_max_iter' = r.loop_max_iter
  /\ node' = r.node
  /\ route' = r.route
  /\ last' = r.last
  /\ trace' = r.trace
  /\ raw_score' = r.raw_score
  /\ last_call' = r.last_call
  /\ evaluator' = r.evaluator

\* the first request calls agentic_rag
RunsInit ==
  \E sc \in RunScripts :
    Invoke([script |-> sc, pos |-> 1, rest |-> {T_08}], TRUE)

\* mutant: the inputs are one dictionary of the module, which every run
\* works on
agentic_rag_shared ==
  /\ threads = <<>>
  /\ threads' = <<RunState>>
  /\ \E q \in Queries, sc \in RunScripts :
       /\ query' = q
       /\ evaluator' = [script |-> sc, pos |-> 1, rest |-> {T_08}]
  /\ node' = "expand_query"
  /\ route' = ""
  /\ last' = "START"
  /\ trace' = <<>>
  /\ raw_score' = <<>>
  /\ last_call' = NoCall
  /\ UNCHANGED <<expanded_query, context, response, precision_score,
                 groundedness_score, groundedness_loop_count,
                 precision_loop_count, feedback, query_feedback,
                 loop_max_iter>>
  /\ UNCHANGED <<recording, now, lru, ret, used, limiter, bucket, metrics,
                 locks, batcher>>

\* a second request calls agentic_rag while the run of the first is going
\* on: its thread builds the inputs anew and invokes the graph on them
agentic_rag ==
  /\ threads = <<>>
  /\ threads' = <<RunState>>
  /\ \E q \in Queries, sc \in RunScripts :
       /\ query' = q
       /\ evaluator' = [script |-> sc, pos |-> 1, rest |-> {T_08}]
  /\ expanded_query' = ""
  /\ context' = <<>>
  /\ response' = ""
  /\ precision_score' = Zero
  /\ groundedness_score' = Zero
  /\ groundedness_loop_count' = 0
  /\ precision_loop_count' = 0
  /\ feedback' = <<>>
  /\ query_feedback' = <<>>
  /\ loop_max_iter' = 3
  /\ node' = "expand_query"
  /\ route' = ""
  /\ last' = "START"
  /\ trace' = <<>>
  /\ raw_score' = <<>>
  /\ last_call' = NoCall
  /\ UNCHANGED <<recording, now, lru, ret, used, limiter, bucket, metrics,
                 locks, batcher>>

\* the thread of the other request is scheduled
switch ==
  /\ threads # <<>>
  /\ threads' = <<RunState>>
  /\ Resume(threads[1])
  /\ UNCHANGED <<recording, now, lru, ret, used, limiter, bucket, metrics,
                 locks, batcher>>

RunsNext ==
  \/ Next
  \/ agentic_rag
  \/ switch

RunsSpec == RunsInit /\ [][RunsNext]_allvars

\* the two runs were given the same query and the same evaluator answers
SameInputs(r1, r2) ==
  /\ r1.query = r2.query
  /\ r1.evaluator.script = r2.evaluator.script

\* the run r1 has come, alone, to what it is in r2
SameProgress(r1, r2) ==
  /\ r1.node = r2.node
  /\ r1.route = r2.route
  /\ r1.groundedness_loop_count = r2.groundedness_loop_count
  /\ r1.precision_loop_count = r2.precision_loop_count
  /\ r1.groundedness_score = r2.groundedness_score
  /\ r1.precision_score = r2.precision_score
  /\ r1.evaluator = r2.evaluator
  /\ (r1.response = FALLBACK) <=> (r2.response = FALLBACK)

C31_Inv ==
  /\ last = "START" => inputs(query)
  /\ \A i \in DOMAIN threads :
       /\ threads[i].last = "START" =>
            /\ threads[i].groundedness_loop_count = 0
            /\ threads[i].precision_loop_count = 0
            /\ threads[i].groundedness_score = Zero
            /\ threads[i].precision_score = Zero
            /\ threads[i].context = <<>>
            /\ threads[i].response = ""
            /\ threads[i].feedback = <<>>
            /\ threads[i].query_feedback = <<>>
       /\ SameInputs(threads[i], RunState) =>
            /\ IsPrefix(threads[i].trace, trace)
                 \/ IsPrefix(trace, threads[i].trace)
            /\ threads[i].trace = trace => SameProgress(threads[i], RunState)

C31_Step ==
  \/ /\ threads = <<>>
     /\ threads' = <<RunState>>
     /\ last' = "START"
  \/ /\ threads # <<>>
     /\ threads' = <<RunState>>
     /\ RunState' = threads[1]
  \/ threads' = threads

\* C31: a run starts from the inputs of agentic_rag, all counters and
\* scores 0 and context, response and the feedbacks empty, whatever another
\* run has done; a step of one run leaves the other run as it is; and of two
\* runs with the same query and the same evaluator answers, interleaved in
\* any way, one has done what the other has done or will do: same steps,
\* counters, scores, route, and a fallback response in one iff in the other.
C31_Isolation == []C31_Inv /\ [][C31_Step]_allvars

C31_Witness ==
  /\ threads # <<>>
  /\ SameInputs(threads[1], RunState)
  /\ threads[1].node = "END"
  /\ node = "END"
  /\ response = FALLBACK
  /\ threads[1].expanded_query # expanded_query

\* ------------------------------------------------- the UI and its guardrail

\* the capitals of the letters of the labels (a label is its characters)
Upper ==
  [c \in {"a", "e", "f", "k", "n", "o", "s", "u"} |->
     CASE c = "a" -> "A" [] c = "e" -> "E" [] c = "f" -> "F" [] c = "k" -> "K"
       [] c = "n" -> "N" [] c = "o" -> "O" [] c = "s" -> "S" [] c = "u" -> "U"]

\* str.upper()
str_upper(t) ==
  [i \in DOMAIN t |-> IF t[i] \in DOMAIN Upper THEN Upper[t[i]] ELSE t[i]]

\* str.replace("\n", " ")
replace_newlines(t) == [i \in DOMAIN t |-> IF t[i] = "\n" THEN " " ELSE t[i]]

RECURSIVE lstrip_ws(_)
lstrip_ws(t) ==
  IF t # <<>> /\ Head(t) \in {" ", "\n"} THEN lstrip_ws(Tail(t)) ELSE t

RECURSIVE rstrip_ws(_)
rstrip_ws(t) ==
  IF t # <<>> /\ t[Len(t)] \in {" ", "\n"}
  THEN rstrip_ws(SubSeq(t, 1, Len(t) - 1))
  ELSE t

\* str.strip() of a text that may hold newlines
strip_ws(t) == rstrip_ws(lstrip_ws(t))

\* sub in t, of two str
in_str(sub, t) ==
  \E i \in 1..(Len(t) - Len(sub) + 1) : SubSeq(t, i, i + Len(sub) - 1) = sub

SAFE_CLASSIFICATIONS == {<<"S", "A", "F", "E">>, <<"S", "6">>, <<"S", "7">>}

INAPPROPRIATE ==
  "I apologize, but I cannot process that input as it may be inappropriate. Please try again with a different question."

ERROR_MSG ==
  "I'm sorry, I encountered an error while processing your query. Please try again or rephrase your question."

GOODBYE ==
  "Goodbye! Feel free to return if you have more questions about nutrition disorders."

\* what the call of Llama Guard does: it answers a label, or fails
GuardReplies ==
  {[raised |-> None, content |-> <<"s", "a", "f", "e">>],
   [raised |-> None, content |-> <<"u", "n", "s", "a", "f", "e", "\n", "S", "1">>],
   [raised |-> None, content |-> <<"u", "n", "s", "a", "f", "e", "\n", "S", "6">>],
   [raised |-> None, content |-> <<"S", "7", "\n">>],
   [raised |-> None, content |-> <<"S", "1">>],
   [raised |-> None, content |-> <<"o", "k">>],
   [raised |-> None, content |-> <<>>],
   [raised |-> "Exception", content |-> <<>>]}

\* filter_input_with_llama_guard, with GROQ_API_KEY set or not, when the
\* call of the model ends as reply says
filter_input_with_llama_guard(key_set, reply) ==
  IF ~key_set THEN <<"S", "A", "F", "E">>
  ELSE IF reply.raised # None THEN None
  ELSE strip_ws(reply.content)

\* _is_safe_input
is_safe_input(key_set, reply) ==
  LET result == filter_input_with_llama_guard(key_set, reply)
      normalized == str_upper(strip_ws(replace_newlines(result)))
  IN  IF ~key_set \/ result = None
      THEN [is_safe |-> TRUE, classification |-> <<"S", "A", "F", "E">>]
      ELSE [is_safe |->
              \E safe \in SAFE_CLASSIFICATIONS : in_str(safe, normalized),
            classification |-> normalized]

MaxMessages == 2

UiQueries == {<<"word">>, <<"e", "x", "i", "t">>}

\* the session of one user, whose chatbot has its services
UiInit == HandlerInit

\* _handle_user_message(user_query) in the session of the user "u"
handle_user_message ==
  /\ ret.n < MaxMessages
  /\ \E user_query \in UiQueries, key_set \in BOOLEAN,
        reply \in GuardReplies, agent \in AgentOutcomes :
       LET verdict == is_safe_input(key_set, reply)
           o == handle_customer_query(<<"u">>, user_query,
                                      ret.memory_enabled, agent)
           r == [n |-> ret.n + 1, op |-> "_handle_user_message",
                 memory_enabled |-> ret.memory_enabled,
                 user_query |-> user_query, key_set |-> key_set,
                 reply |-> reply]
       IN  IF user_query = <<"e", "x", "i", "t">>
           THEN /\ ret' = [r EXCEPT !.reply = None] @@
                            [shown |-> GOODBYE, invoked |-> FALSE]
                /\ UNCHANGED <<lru, limiter, metrics, now>>
           ELSE IF ~verdict.is_safe
           THEN /\ ret' = r @@ [shown |-> INAPPROPRIATE, invoked |-> FALSE]
                /\ UNCHANGED <<lru, limiter, metrics, now>>
           ELSE /\ ret' = r @@ [shown |-> IF o.kind = "raise" THEN ERROR_MSG
                                          ELSE o.value,
                                invoked |-> TRUE]
                /\ lru' = o.lru
                /\ limiter' = o.limiter
                /\ metrics' = o.metrics
                /\ now' = o.now
  /\ UNCHANGED <<used, bucket, threads, locks, batcher, vars>>

UiNext ==
  \/ handle_user_message
  \/ Tick

UiSpec == UiInit /\ [][UiNext]_allvars

\* sub is a whole word of the text t
in_str_word(sub, t) ==
  \E i \in 1..(Len(t) - Len(sub) + 1) :
    /\ SubSeq(t, i, i + Len(sub) - 1) = sub
    /\ i = 1 \/ t[i - 1] \in {" ", ","}
    /\ i + Len(sub) - 1 = Len(t) \/ t[i + Len(sub)] \in {" ", ","}

\* the label, once normalized, names one of the accepted classifications
Classified(label) ==
  \E safe \in SAFE_CLASSIFICATIONS :
    in_str_word(safe, str_upper(strip_ws(replace_newlines(label))))

\* C32: a message (other than exit) is answered with the inappropriate-input
\* reply, the handler not being invoked, iff GROQ_API_KEY is set, the call
\* of the classifier succeeds and its label is none of SAFE, S6, S7; the
\* label "unsafe\nS1" is so rejected; otherwise the handler is invoked.
C32_Admission ==
  (ret.op = "_handle_user_message" /\ ret.user_query # <<"e", "x", "i", "t">>)
    =>
    LET rejected == ret.shown = INAPPROPRIATE /\ ~ret.invoked
    IN  /\ rejected <=>
             /\ ret.key_set
             /\ ret.reply.raised = None
             /\ ~Classified(ret.reply.content)
        /\ ~rejected => ret.invoked

\* ------------------------------------ requests reporting their actual tokens

\* mutant: the running total is never taken below 0
RateLimiter_report_actual_tokens_floor(self, actual_tokens) ==
  [self EXCEPT !.total_tokens =
     IF @ - 1000 + actual_tokens < 0 THEN 0 ELSE @ - 1000 + actual_tokens]

\* RateLimiter.report_actual_tokens(actual_tokens)
RateLimiter_report_actual_tokens(self, actual_tokens) ==
  [self EXCEPT !.total_tokens = @ - 1000 + actual_tokens]

MaxReports == 2

ActualTokens == {0, 2000}

\* ret counts the calls returned, the acquires and the reports started (as
\* many acquires as reports are made at most), and tells in
\* overlap whether a report was started while another was going on
ReportInit ==
  /\ NoRun
  /\ now = 0
  /\ lru = NotConstructed
  /\ used = NotConstructed
  /\ batcher = NotConstructed
  /\ \E config \in LimiterConfigs : limiter = RateLimiter_with(config, 0)
  /\ bucket = NotConstructed
  /\ metrics = NotConstructed
  /\ threads = [th \in Threads |-> Idle]
  /\ locks = [lk \in {"limiter"} |-> Free]
  /\ ret = [n |-> 0, op |-> "__init__", acquires |-> 0, reports |-> 0,
            overlap |-> FALSE]

\* a request calls acquire, which returns when its waits are over and the
\* lock of the statistics has been free
report_acquire ==
  /\ ret.acquires < MaxReports
  /\ CanEnter(locks, "limiter")
  /\ \E estimated_tokens \in EstimatedTokens :
       LET r == RateLimiter_acquire(limiter, <<"int", estimated_tokens>>,
                                    0, now)
       IN  /\ limiter' = r.self
           /\ now' = r.t
           /\ ret' = [n |-> ret.n + 1, op |-> "acquire",
                      acquires |-> ret.acquires + 1,
                      reports |-> ret.reports, overlap |-> ret.overlap,
                      estimated_tokens |-> estimated_tokens,
                      value |-> r.value]
  /\ UNCHANGED <<lru, used, bucket, metrics, threads, locks, batcher, vars>>

\* a request calls report_actual_tokens and comes to the with statement
report_call ==
  /\ ret.reports < MaxReports
  /\ \E th \in Threads, actual_tokens \in ActualTokens :
       /\ threads[th].pc = "idle"
       /\ threads' = [threads EXCEPT ![th] =
                        [pc |-> "with", actual_tokens |-> actual_tokens]]
       /\ ret' = [ret EXCEPT
                    !.reports = @ + 1,
                    !.overlap = @ \/ \E other \in Threads \ {th} :
                                      threads[other].pc # "idle"]
  /\ UNCHANGED <<now, lru, used, limiter, bucket, metrics, locks, batcher, vars>>

\* the thread takes the lock of the limiter
report_enter ==
  /\ \E th \in Threads :
       /\ threads[th].pc = "with"
       /\ CanEnter(locks, "limiter")
       /\ locks' = [locks EXCEPT !["limiter"] = th]
       /\ threads' = [threads EXCEPT ![th].pc = "body"]
  /\ UNCHANGED <<now, lru, ret, used, limiter, bucket, metrics, batcher, vars>>

\* the thread adjusts the total, releases the lock and returns
report_leave ==
  /\ \E th \in Threads :
       /\ threads[th].pc = "body"
       /\ limiter' = RateLimiter_report_actual_tokens(
                        limiter, threads[th].actual_tokens)
       /\ locks' = with_exit(locks, "limiter")
       /\ threads' = [threads EXCEPT ![th] = Idle]
       /\ ret' = [n |-> ret.n + 1, op |-> "report_actual_tokens",
                  acquires |-> ret.acquires,
                  reports |-> ret.reports, overlap |-> ret.overlap,
                  actual_tokens |-> threads[th].actual_tokens]
  /\ UNCHANGED <<now, lru, used, bucket, metrics, batcher, vars>>

ReportNext ==
  \/ report_acquire
  \/ report_call
  \/ report_enter
  \/ report_leave
  \/ Tick

ReportSpec == ReportInit /\ [][ReportNext]_allvars

C33_Step ==
  /\ (ret'.n = ret.n + 1 /\ ret'.op = "report_actual_tokens") =>
       /\ limiter'.total_tokens =
            limiter.total_tokens - 1000 + ret'.actual_tokens
       /\ limiter' = [limiter EXCEPT !.total_tokens = limiter'.total_tokens]
  /\ (ret'.n = ret.n + 1 /\ ret'.op = "acquire") =>
       limiter'.total_tokens =
         limiter.total_tokens + (IF ret'.value THEN ret'.estimated_tokens
                                 ELSE 0)

\* C33: report_actual_tokens takes 1000 off total_tokens and adds the actual
\* tokens, whatever was estimated and however often it is called, and a
\* granted acquire adds its estimate; so total_tokens goes below 0, as it
\* does after one granted acquire and two overlapping reports (witness).
C33_TotalTokensDrift == [][C33_Step]_allvars

C33_Witness ==
  /\ limiter.total_requests = 1
  /\ ret.op = "report_actual_tokens"
  /\ ret.reports = 2
  /\ ret.overlap
  /\ \A th \in Threads : threads[th].pc = "idle"
  /\ limiter.total_tokens < 0

\* ------------------------------------------------------- the end of a run

C34_Inv ==
  /\ node = "score_groundedness" =>
       /\ last = "craft_response"
       /\ response \in GeneratorOutputs
  /\ node = "check_precision" =>
       /\ last = "score_groundedness"
       /\ last_call = Llm("score_groundedness", <<context, response>>)
       /\ AtLeast07(groundedness_score)
  /\ Pass =>
       /\ last_call = Llm("check_precision", <<query, response>>)
       /\ AtLeast07(groundedness_score)
       /\ AtLeast07(precision_score)
       /\ response \in GeneratorOutputs
       /\ response # FALLBACK

C34_Step ==
  /\ node \in {"score_groundedness", "check_precision"} =>
       UNCHANGED <<response, context>>
  /\ node = "check_precision" => UNCHANGED groundedness_score

\* C34: a run that ends in Pass has both scores at their thresholds or
\* above; they were computed on the response returned: score_groundedness
\* ran right after the craft_response that made it and scored it,
\* check_precision ran right after that and scored it, neither changed it,
\* and it is an answer of the Generator, not the fallback message.
C34_PassAfterBothGates == []C34_Inv /\ [][C34_Step]_vars

C34_Witness ==
  /\ Pass
  /\ groundedness_loop_count = 3
  /\ precision_loop_count = 2
  /\ feedback # <<>>
  /\ query_feedback # <<>>

\* a traced run whose evaluator may answer anything of EvaluatorOutputs
TracedInit ==
  Invoke([script |-> <<>>, pos |-> 1, rest |-> EvaluatorOutputs], TRUE)

TracedSpec == TracedInit /\ [][Next]_vars

\* how often the node n has run
Ran(n) == Cardinality({i \in DOMAIN trace : trace[i] = n})

\* C35: in one run refine_response runs at most max_refinement_iterations - 1
\* times (2 times), however often the run comes back to expand_query from
\* refine_query, since groundedness_loop_count counts every
\* score_groundedness of the run; and score_groundedness runs at most
\* 2 * max_refinement_iterations times.
C35_BudgetPerRun ==
  /\ groundedness_loop_count = Ran("score_groundedness")
  /\ Ran("refine_response") <= max_refinement_iterations - 1
  /\ Ran("refine_response") <= 2
  /\ Ran("score_groundedness") <= 2 * max_refinement_iterations

C35_Witness ==
  /\ node = "END"
  /\ Ran("refine_response") = 2
  /\ Ran("refine_query") = 3
  /\ Ran("score_groundedness") = 6

\* --------------------------------------------- the first request of a limiter

\* C36: the first acquire, with the estimate 1000, made on a RateLimiter
\* just built with the default configuration is granted at once: each of
\* its three buckets starts with what one request takes from it, 1 token,
\* 1 token and 1000 tokens.
C36_FirstAcquireGranted ==
  (/\ ret.n = 1
   /\ ret.op = "acquire"
   /\ ret.estimated_tokens = 1000
   /\ ret.before = RateLimiter(0)) =>
    /\ ret.before.rpm.tokens >= TokenUnit
    /\ ret.before.rph.tokens >= TokenUnit
    /\ ret.before.tpm.tokens >= 1000 * TokenUnit
    /\ ret.value = TRUE
    /\ limiter.total_requests = 1

\* ------------------------------------------- what the handler puts in cache

\* the cache key of the request just handled
RequestKey ==
  generate_cache_key(validate_user_id(ret.user_id), validate_query(ret.query))

C38_Step ==
  (/\ Handled
   /\ ret'.n = ret.n + 1
   /\ ValidRequest
   /\ ret'.user_id \notin InvalidUserIds
   /\ ret'.query \notin InvalidQueries
   /\ <<ret.user_id, ret.query>> # <<ret'.user_id, ret'.query>>) =>
    generate_cache_key(validate_user_id(ret.user_id),
                       validate_query(ret.query))
      # generate_cache_key(validate_user_id(ret'.user_id),
                           validate_query(ret'.query))

C38_NoLeakBetweenUsers == [][C38_Step]_allvars

\* ------------------------------------------------ lookup and fill of a key

\* C39: of the threads that call a function wrapped by cached_llm_call
\* with equal arguments, at most one is inside the wrapped function at a
\* time: the others wait for the value it produces.
C39_SingleFlight ==
  \A th \in Threads, other \in Threads :
    (/\ th # other
     /\ threads[th].pc = "func"
     /\ threads[other].pc = "func") =>
      threads[th].call.key # threads[other].call.key

\* ---------------------------------------------------------------- AsyncBatcher

\* time is counted in ticks of 0.1 s here: max_wait_time = 0.1 is one tick
\* and the timeout=30.0 of asyncio.wait_for in add is 300 ticks
WaitForTimeout == 300

MaxBatcherTime == 302

\* the calls of add are made in the first ticks
MaxAddTime == 2

\* the calls add(item, processor), each with an item of its own
Adds == {"a1", "a2", "a3"}

BatchSizes == {1, 2}

\* what processor(items) gives for each item when it returns
ProcessorResult == [a1 |-> "r1", a2 |-> "r2", a3 |-> "r3"]

\* processor(items) returns its list of results, or raises
ProcessorOutcomes == {"results", "raise"}

\* AsyncBatcher.__init__: the sizes are kept, nothing is pending
AsyncBatcher(batch_size, max_wait_time) ==
  [batch_size |-> batch_size, max_wait_time |-> max_wait_time,
   pending |-> <<>>]

\* asyncio.Lock(): not locked, nobody waiting
asyncio_Lock == [locked |-> FALSE, waiters |-> <<>>]

\* asyncio.Future(): not done
asyncio_Future == [state |-> "pending", value |-> None]

\* a call of add that has not been made yet
NotCalled ==
  [pc |-> "idle", future |-> [state |-> "none", value |-> None],
   deadline |-> 0, added |-> 0, batch |-> <<>>, kind |-> None,
   value |-> None]

BatcherInit ==
  /\ NoRun
  /\ now = 0
  /\ lru = NotConstructed
  /\ used = NotConstructed
  /\ limiter = NotConstructed
  /\ bucket = NotConstructed
  /\ metrics = NotConstructed
  /\ \E batch_size \in BatchSizes : batcher = AsyncBatcher(batch_size, 1)
  /\ ret = [n |-> 0, op |-> "__init__", handed |-> [c \in Adds |-> 0]]
  /\ threads = [c \in Adds |-> NotCalled]
  /\ locks = [batcher |-> asyncio_Lock]

\* the test of add: len(self._pending) >= self._batch_size
batch_is_full(self) == Len(self.pending) >= self.batch_size

\* the body of `async with self._lock` in add, run by the call c that has
\* the lock, up to its first await: the pair is appended; a full batch is
\* copied, cleared and handed to the processor with the lock held, if not
\* the lock is released and the call waits for its future
add_locked(c, waiters) ==
  LET appended == [batcher EXCEPT !.pending = Append(@, c)]
      batch == appended.pending
  IN  IF batch_is_full(appended)
      THEN /\ batcher' = [appended EXCEPT !.pending = <<>>]
           /\ threads' = [threads EXCEPT ![c] =
                            [@ EXCEPT !.pc = "processor", !.batch = batch,
                                      !.future = asyncio_Future,
                                      !.added = now]]
           /\ locks' = [locks EXCEPT !.batcher =
                          [locked |-> TRUE, waiters |-> waiters]]
           /\ ret' = [ret EXCEPT !.op = "_process_batch",
                        !.handed = [i \in Adds |->
                                      IF \E k \in 1..Len(batch) : batch[k] = i
                                      THEN @[i] + 1 ELSE @[i]]]
      ELSE /\ batcher' = appended
           /\ threads' = [threads EXCEPT ![c] =
                            [@ EXCEPT !.pc = "wait_for",
                                      !.future = asyncio_Future,
                                      !.added = now,
                                      !.deadline = now + WaitForTimeout]]
           /\ locks' = [locks EXCEPT !.batcher =
                          [locked |-> FALSE, waiters |-> waiters]]
           /\ ret' = [ret EXCEPT !.op = "add"]

\* a call of add starts: it has the lock at once if the lock is free and
\* nobody waits for it, if not it queues for the lock
batcher_add ==
  /\ now < MaxAddTime
  /\ \E c \in Adds :
       /\ threads[c].pc = "idle"
       /\ IF ~locks.batcher.locked /\ locks.batcher.waiters = <<>>
          THEN add_locked(c, <<>>)
          ELSE /\ threads' = [threads EXCEPT ![c] =
                                [@ EXCEPT !.pc = "lock",
                                          !.future = asyncio_Future]]
               /\ locks' = [locks EXCEPT !.batcher.waiters = Append(@, c)]
               /\ ret' = [ret EXCEPT !.op = "add"]
               /\ UNCHANGED batcher
  /\ UNCHANGED <<now, lru, used, limiter, bucket, metrics, vars>>

\* the lock is free: the call that has waited longest for it goes on
lock_wakeup ==
  /\ ~locks.batcher.locked
  /\ locks.batcher.waiters # <<>>
  /\ add_locked(Head(locks.batcher.waiters), Tail(locks.batcher.waiters))
  /\ UNCHANGED <<now, lru, used, limiter, bucket, metrics, vars>>

\* what a future not yet done becomes when the processor has ended as
\* outcome; a future that is done (cancelled by wait_for) is left alone
resolve(future, outcome, item) ==
  IF future.state # "pending" THEN future
  ELSE IF outcome = "raise"
  THEN [state |-> "exception", value |-> "Exception"]
  ELSE [state |-> "result", value |-> ProcessorResult[item]]

\* await processor(items) ends in the call c: the futures of its batch
\* are resolved, the lock is released and c waits for its own future
processor_done ==
  /\ \E c \in Adds, outcome \in ProcessorOutcomes :
       /\ threads[c].pc = "processor"
       /\ LET batch == threads[c].batch
              inbatch(i) == \E k \in 1..Len(batch) : batch[k] = i
          IN  threads' =
                [i \in Adds |->
                   LET f == IF inbatch(i)
                            THEN resolve(threads[i].future, outcome, i)
                            ELSE threads[i].future
                   IN  IF i = c
                       THEN [threads[i] EXCEPT
                               !.pc = "wait_for", !.future = f,
                               !.deadline = now + WaitForTimeout]
                       ELSE [threads[i] EXCEPT !.future = f]]
  /\ locks' = [locks EXCEPT !.batcher.locked = FALSE]
  /\ ret' = [ret EXCEPT !.op = "_process_batch"]
  /\ UNCHANGED <<now, lru, used, limiter, bucket, metrics, batcher, vars>>

\* asyncio.wait_for(future, timeout=30.0) ends with the future done: add
\* returns its result or raises its exception
add_return ==
  /\ \E c \in Adds :
       /\ threads[c].pc = "wait_for"
       /\ threads[c].future.state \in {"result", "exception"}
       /\ threads' = [threads EXCEPT ![c] =
                        [@ EXCEPT !.pc = "done",
                                  !.kind = IF threads[c].future.state = "result"
                                           THEN "return" ELSE "raise",
                                  !.value = threads[c].future.value]]
  /\ ret' = [ret EXCEPT !.n = @ + 1, !.op = "add"]
  /\ UNCHANGED <<now, lru, used, limiter, bucket, metrics, locks, batcher,
                 vars>>

\* the 30 s are over with the future not done: wait_for cancels it and
\* add returns None
add_timeout ==
  /\ \E c \in Adds :
       /\ threads[c].pc = "wait_for"
       /\ threads[c].future.state = "pending"
       /\ now >= threads[c].deadline
       /\ threads' = [threads EXCEPT ![c] =
                        [@ EXCEPT !.pc = "done", !.kind = "return",
                                  !.value = None,
                                  !.future = [state |-> "cancelled",
                                              value |-> None]]]
  /\ ret' = [ret EXCEPT !.n = @ + 1, !.op = "add"]
  /\ UNCHANGED <<now, lru, used, limiter, bucket, metrics, locks, batcher,
                 vars>>

\* the deadlines of the calls that wait for a future not yet done
Deadlines ==
  {threads[c].deadline :
     c \in {i \in Adds : /\ threads[i].pc = "wait_for"
                         /\ threads[i].future.state = "pending"}}

\* time passes: tick by tick of 0.1 s while calls of add may still start,
\* then up to the next timeout of a wait_for; a timeout that is due comes
\* first
batcher_tick ==
  /\ \A d \in Deadlines : now < d
  /\ now < MaxAddTime \/ Deadlines # {}
  /\ LET next == IF now < MaxAddTime THEN now + 1
                 ELSE CHOOSE d \in Deadlines : \A e \in Deadlines : d <= e
     IN  /\ next <= MaxBatcherTime
         /\ now' = next
  /\ UNCHANGED <<lru, ret, used, limiter, bucket, metrics, threads, locks,
                 batcher, vars>>

BatcherNext ==
  \/ batcher_add
  \/ lock_wakeup
  \/ processor_done
  \/ add_return
  \/ add_timeout
  \/ batcher_tick

BatcherSpec == BatcherInit /\ [][BatcherNext]_allvars

\* the item of the call c is among the pending pairs
Pending(c) == \E k \in 1..Len(batcher.pending) : batcher.pending[k] = c

\* C40: every call of add gets the processor's result for its item: no
\* item is handed to the processor twice, an item does not stay pending
\* once max_wait_time has passed since it was added, also when the batch
\* is not full, and a call that returns returns the result for its item.
C40_EveryItemDelivered ==
  \A c \in Adds :
    /\ ret.handed[c] <= 1
    /\ (Pending(c) /\ threads[c].pc = "wait_for") =>
         now - threads[c].added <= batcher.max_wait_time
    /\ (threads[c].pc = "done" /\ threads[c].kind = "return") =>
         /\ threads[c].value = ProcessorResult[c]
         /\ ret.handed[c] = 1

====
